---- MODULE Spec2Model ----
(***************************************************************************)
(* Playback orchestration engine of angular-howler (class Howl, class      *)
(* Sound): the group state machine, the sound pool, the load queue, the    *)
(* fade interval and the end-of-playback timers.                           *)
(*                                                                         *)
(* Units: times are integer milliseconds (the code keeps seek/start/stop   *)
(* in seconds = ms / 1000), volumes are integer hundredths (the code       *)
(* rounds every faded volume to two decimals).                             *)
(*                                                                         *)
(* A Howl is one record; every method is an operator from a Howl record    *)
(* to the Howl record after the call, so that the calls a method makes     *)
(* (emit -> loadQueue -> a queued action -> emit ...) are part of it.      *)
(* Sound objects live in heap (uid -> fields); sounds is the array         *)
(* _sounds / _soundArray of the objects the group holds.  Timers, fade     *)
(* intervals and pending backend callbacks hold object references (uid),   *)
(* as the closures of the code do.                                         *)
(***************************************************************************)
EXTENDS Integers, Sequences, FiniteSets, TLC

VARIABLES howl, ref, script

vars == <<howl, ref, script>>

(* ---------------------------------------------------------------- bounds *)
MaxSounds == 4      \* Sound objects constructed in one run
MaxQueue == 3       \* entries the load queue may hold when a call is made
MaxClock == 2       \* clock advances in one run (each of ClockStep ms)
MaxCalls == 2       \* public calls in one run of Spec

(* ------------------------------------------------------ program constants *)
DefaultPool == 5    \* HowlConfig._pool
DefaultVolume == 100 \* HowlConfig._volume = 1
DefaultRate == 1    \* HowlConfig._rate
RetryDelay == 100   \* _ended re-schedules itself after 100 ms (HTML5)

(* ------------------------------------------------------ model parameters *)
ClockStep == 5 * 100        \* ms the clock advances in one Advance step
AssetDuration == 2 * 1000   \* duration of the decoded asset, ms
FooSprite == <<500, 1000, FALSE>>   \* sprite foo: offset, duration, loop

StackLimit == 2     \* nested calls of pause after which the call stack is exhausted

NoId == 0 - 1               \* an id argument that was not passed (undefined / null)
NoEvent == "none"           \* _loadQueue() called without an event
Junk == 0 - 2               \* a non-numeric value stored in a numeric field
Infinity == 0 - 3           \* timeout === Infinity

Truthy(id) == id > 0        \* `if (id)` on an id argument

Max(a, b) == IF a >= b THEN a ELSE b
Min(a, b) == IF a <= b THEN a ELSE b

(* Math.round(n / d) for d > 0: nearest integer, halves towards +infinity.  *)
RoundDiv(n, d) == (2 * n + d) \div (2 * d)

Drop(f, k) == [x \in (DOMAIN f) \ {k} |-> f[x]]

(* With([x \in {e} |-> body]) is body with x bound to the value of e. *)
With(f) == f[CHOOSE x \in DOMAIN f : TRUE]

(* ------------------------------------------------------------ the sprites *)
NoSprites == [n \in {} |-> <<0, 0, FALSE>>]
FooSprites == [n \in {"foo"} |-> FooSprite]

(* Sound.loadListener: a sprite table is synthesised only when none is configured. *)
SpriteAfterLoad(h) ==
  IF DOMAIN h.sprite = {}
    THEN [n \in {"__default"} |-> <<0, AssetDuration, FALSE>>]
    ELSE h.sprite

(* --------------------------------------------------------- ghost recording *)
(* log: the events emitted during the current step, in order.              *)
(* qtrace: per queue entry (tag), when it was first run and when removed.  *)
Logged(h, event, id) == [h EXCEPT !.log = Append(@, <<event, id>>)]

(* ------------------------------------------------------------- _soundById *)
(* The object whose ARRAY INDEX equals id (0-based), else null (0).        *)
soundById(h, id) ==
  IF id >= 0 /\ id < Len(h.sounds) THEN h.sounds[id + 1] ELSE 0

(* ----------------------------------------------------------- _getSoundIds *)
(* `if (id)` all ids of the pool, else the one-element array [id].         *)
getSoundIds(h, id) ==
  IF Truthy(id)
    THEN [i \in 1..Len(h.sounds) |-> h.heap[h.sounds[i]].id]
    ELSE <<id>>

(* ---------------------------------------------------------------- playing *)
playing(h, id) ==
  With([s \in {soundById(h, id)} |->
  IF s # 0 THEN ~h.heap[s].paused ELSE FALSE])

(* ------------------------------------------------------------ _clearTimer *)
clearTimer(h, id) ==
  IF id \in DOMAIN h.endTimers
    THEN With([e \in {h.endTimers[id]} |->
         With([s \in {soundById(h, id)} |->
         With([ts \in {IF ~e.fn
                     THEN {x \in h.timers : x.t # e.t}
                     ELSE IF s # 0 /\ h.heap[s].hasNode
                            THEN {x \in h.timers : ~(x.t = e.t /\ x.uid = s)}
                            ELSE h.timers} |->
         [h EXCEPT !.timers = ts, !.endTimers = Drop(@, id)]])])])
    ELSE h

(* A fresh timer / interval handle: one no reference in the state holds.   *)
FreshHandle(h) ==
  With([used \in {{x.t : x \in h.timers} \cup {x.t : x \in h.fades}
                \cup {h.endTimers[k].t : k \in DOMAIN h.endTimers}
                \cup {h.heap[u].interval : u \in DOMAIN h.heap}} |->
  1 + CHOOSE m \in used \cup {0} : \A x \in used : x <= m])

(* setTimeout(self._ended.bind(self, sound), timeout) stored in _endTimers[id] *)
armEndTimer(h, uid, id, timeout) ==
  With([t \in {FreshHandle(h)} |->
  With([d \in {IF timeout = Junk THEN 0 ELSE timeout} |->
  [h EXCEPT !.timers = @ \cup {[t |-> t, kind |-> "end", uid |-> uid,
                                   delay |-> d, due |-> h.now + d]},
               !.endTimers = Drop(@, id) @@ (id :> [t |-> t, fn |-> FALSE])]])])

(* node.addEventListener('ended', fn) stored in _endTimers[id] *)
armEndListener(h, uid, id) ==
  With([t \in {FreshHandle(h)} |->
  [h EXCEPT !.timers = @ \cup {[t |-> t, kind |-> "listener", uid |-> uid,
                                   delay |-> 0, due |-> 0]},
               !.endTimers = Drop(@, id) @@ (id :> [t |-> t, fn |-> TRUE])]])

(* ------------------------------------------------ Sound.constructor, register *)
(* register pushes the object and returns the array length as its id.      *)
(* paused / ended / seek are not among the configured keys: they start     *)
(* undefined (falsy).  snap is configCopy, the construction-time snapshot.  *)
(* hasNode: the object has a node (unload deletes it); node: it is playing. *)
register(h) == Len(h.sounds) + 1

NewSound(h) ==
  With([uid \in {Len(h.issued) + 1} |->
  With([id \in {register(h)} |->
  With([s \in {[uid |-> uid, id |-> id, paused |-> FALSE, ended |-> FALSE,
            volume |-> h.volume, rate |-> h.rate, loop |-> h.loop,
            seek |-> 0, rateSeek |-> 0, start |-> 0, stop |-> 0,
            sprite |-> "__default", playStart |-> 0,
            interval |-> 0, fadeTo |-> NoId,
            hasNode |-> (h.webAudio \/ ~h.noAudio),
            node |-> FALSE, nodeFrom |-> 0, nodeAt |-> 0, src |-> FALSE,
            ready |-> FALSE, loadFn |-> ~h.webAudio,
            snap |-> [volume |-> h.volume, rate |-> h.rate, loop |-> h.loop]]} |->
  [h EXCEPT !.sounds = Append(@, uid),
               !.heap = @ @@ (uid :> s),
               !.issued = Append(@, id),
               !.made = uid]])])])

(* Sound.reset: back to the construction-time snapshot, the id is kept.    *)
reset(h, uid) ==
  [h EXCEPT !.heap[uid] = [@ EXCEPT !.volume = h.heap[uid].snap.volume,
                                    !.rate = h.heap[uid].snap.rate,
                                    !.loop = h.heap[uid].snap.loop, !.paused = FALSE,
                                    !.ended = FALSE, !.seek = 0, !.rateSeek = 0,
                                    !.sprite = "__default"],
            !.made = uid]
(* _drain that goes on until fewer than `pool` sounds are ended. *)
RECURSIVE drainLoopBelow(_, _, _)
drainLoopBelow(h, i, count) ==
  IF i < 1 \/ count < h.pool
    THEN h
    ELSE IF h.heap[h.sounds[i]].ended
           THEN drainLoopBelow([h EXCEPT !.sounds = SubSeq(@, 1, i - 1) \o SubSeq(@, i + 1, Len(@))],
                               i - 1, count - 1)
           ELSE drainLoopBelow(h, i - 1, count)

(* ------------------------------------------------------------------ _drain *)
(* Removes ended sounds, newest first, while more than `pool` are ended.   *)
RECURSIVE drainLoop(_, _, _)
drainLoop(h, i, count) ==
  IF i < 1 \/ count <= h.pool
    THEN h
    ELSE IF h.heap[h.sounds[i]].ended
           THEN drainLoop([h EXCEPT !.sounds = SubSeq(@, 1, i - 1) \o SubSeq(@, i + 1, Len(@))],
                          i - 1, count - 1)
           ELSE drainLoop(h, i - 1, count)

drain(h) ==
  IF Len(h.sounds) < h.pool
    THEN h
    ELSE drainLoop(h, Len(h.sounds),
                   Cardinality({i \in 1..Len(h.sounds) : h.heap[h.sounds[i]].ended}))

(* _inactiveSound that recycles the newest ended sound. *)
inactiveSoundNewest(h) ==
  With([d \in {drain(h)} |->
  With([e \in {{i \in 1..Len(d.sounds) : d.heap[d.sounds[i]].ended}} |->
  IF e # {}
       THEN reset(d, d.sounds[CHOOSE i \in e : \A j \in e : i >= j])
       ELSE NewSound(d)])])

(* ---------------------------------------------------------- _inactiveSound *)
(* The object obtained is left in made.                                    *)
inactiveSound(h) ==
  With([d \in {drain(h)} |->
  With([e \in {{i \in 1..Len(d.sounds) : d.heap[d.sounds[i]].ended}} |->
  IF e # {}
       THEN reset(d, d.sounds[CHOOSE i \in e : \A j \in e : i <= j])
       ELSE NewSound(d)])])

(* ------------------------------------------------------- the load queue *)
Cmd(op, a, b, c, id, n) == [op |-> op, a |-> a, b |-> b, c |-> c, id |-> id, n |-> n]

(* this._queue.push({event, action}) *)
Enqueue(h, event, cmd) ==
  With([tag \in {h.tags + 1} |->
  [h EXCEPT !.queue = Append(@, [event |-> event, cmd |-> cmd, tag |-> tag]),
               !.tags = tag]])

(* this._queue.shift() *)
Shift(h) ==
  [h EXCEPT !.queue = Tail(@),
            !.qtrace = Append(@, <<"shift", h.queue[1].tag>>)]

(* ghost: the first and the second time the action of entry `tag` is run *)
NoteRun(h, tag) ==
  IF <<"run", tag>> \notin {h.qtrace[k] : k \in DOMAIN h.qtrace}
    THEN [h EXCEPT !.qtrace = Append(@, <<"run", tag>>)]
    ELSE IF <<"rerun", tag>> \notin {h.qtrace[k] : k \in DOMAIN h.qtrace}
           THEN [h EXCEPT !.qtrace = Append(@, <<"rerun", tag>>)]
           ELSE h

Throw(h) == [h EXCEPT !.threw = TRUE]
Ret(h, v) == [h EXCEPT !.ret = v]

(* The position of the HTML5 node: node.currentTime. *)
curTime(h, u) ==
  With([s \in {h.heap[u]} |->
  IF s.node
       THEN Min(AssetDuration, s.nodeFrom + (h.now - s.nodeAt) * s.rate)
       ELSE s.nodeFrom])

(* The methods call one another (a queued action calls a method, which    *)
(* emits, which runs the next queued action): every call between methods  *)
(* goes through Invoke, self_m(h, ...) standing for self.m(...).          *)
RECURSIVE Invoke(_, _)
RECURSIVE volumeLoop(_, _, _, _, _), pauseLoop(_, _, _, _), stopLoop(_, _, _, _)
RECURSIVE rateLoop(_, _, _, _), fadeLoop(_, _, _, _, _, _, _)
self_loadQueue(h, a) == Invoke(h, <<"loadQueue", a>>)
self_volume(h, a, b, c, d) == Invoke(h, <<"volume", a, b, c, d>>)
self_stopFade(h, a) == Invoke(h, <<"stopFade", a>>)
self_pause(h, a, b) == Invoke(h, <<"pause", a, b>>)
self_stop(h, a, b) == Invoke(h, <<"stop", a, b>>)
self_seek(h, a, b) == Invoke(h, <<"seek", a, b>>)
self_play(h, a, b, c) == Invoke(h, <<"play", a, b, c>>)
self_ended(h, a) == Invoke(h, <<"ended", a>>)
self_rate(h, a, b, c) == Invoke(h, <<"rate", a, b, c>>)
self_fade(h, a, b, c, d) == Invoke(h, <<"fade", a, b, c, d>>)

(* ------------------------------------------------------------- listeners *)
(* listeners[event] is the array this['_on' + event] that on, once, off    *)
(* and _emit use; eventListeners[event] is _config.eventListeners['on' +   *)
(* event], the array Howl.emit and Howl.off use.  An entry is {id, fn} or  *)
(* {id, fn, once}.                                                         *)
EventNames == {"load", "loaderror", "play", "playerror", "pause", "stop", "mute",
               "volume", "rate", "seek", "fade", "end", "resume"}

NoFn == "null"              \* fn = null
Undefined == 0 - 4          \* an id that was not passed to on()

NoListeners == [e \in EventNames |-> <<>>]

(* `!thisEvent.id || thisEvent.id === id || event === 'load'` *)
Matches(e, event, id) == ~Truthy(e.id) \/ e.id = id \/ event = "load"

(* The loop of off: the first entry whose fn and id match ends the loop,   *)
(* and what it removes is events.splice(i, 1) with i still 0.              *)
spliceMatch(events, fn, id) ==
  IF \E k \in 1..Len(events) :
       (fn = events[k].fn /\ id = events[k].id) \/ (fn = NoFn /\ id = events[k].id)
    THEN Tail(events)
    ELSE events

(* ---------------------------------------------------------------- Howl.off *)
howlOff(h, event, fn, id) ==
  IF fn # NoFn \/ Truthy(id)
    THEN [h EXCEPT !.eventListeners[event] = spliceMatch(@, fn, id)]
    ELSE IF event # ""
           THEN [h EXCEPT !.eventListeners[event] = <<>>]
           ELSE [h EXCEPT !.eventListeners = NoListeners]

(* --------------------------------------------------------------- Howl.emit *)
(* The timeout callback is `fn => fn.call(this, id, msg).bind(...)`: it is  *)
(* called without an argument in the later tick and fails there.           *)
RECURSIVE howlEmitLoop(_, _, _, _)
howlEmitLoop(h, event, id, k) ==
  IF k > Len(h.eventListeners[event])
    THEN h
    ELSE With([e \in {h.eventListeners[event][k]} |->
         IF ~Matches(e, event, id)
              THEN howlEmitLoop(h, event, id, k + 1)
              ELSE With([h1 \in {[h EXCEPT !.tasks = Append(@, [kind |-> "arrow", id |-> id,
                                                                fn |-> e.fn, event |-> event])]} |->
                   howlEmitLoop(IF e.once THEN howlOff(h1, event, e.fn, e.id) ELSE h1,
                                event, id, k + 1)])])

howlEmit(h, event, id) ==
  self_loadQueue(howlEmitLoop(Logged(h, event, id), event, id, 1), event)

(* _emit that calls a matching listener before it returns. *)
emitInline(h, event, id) ==
  With([h1 \in {Logged(h, event, id)} |->
  With([hit \in {{k \in 1..Len(h.listeners[event]) : Matches(h.listeners[event][k], event, id)}} |->
  IF hit = {}
       THEN self_loadQueue(h1, event)
       ELSE With([e \in {h.listeners[event][CHOOSE k \in hit : \A j \in hit : k <= j]} |->
            Throw([h1 EXCEPT !.invoked = Append(@, <<e.fn, event, id>>)])])])])

(* ------------------------------------------------------------------- _emit *)
(* A matching listener is called in a later tick (setTimeout 0); the test  *)
(* that follows reads events[i] with no i in scope, a ReferenceError that  *)
(* leaves _emit before off and _loadQueue.  With no matching listener the  *)
(* event steps the queue.                                                  *)
emit(h, event, id) ==
  With([h1 \in {Logged(h, event, id)} |->
  With([hit \in {{k \in 1..Len(h.listeners[event]) : Matches(h.listeners[event][k], event, id)}} |->
  IF hit = {}
       THEN self_loadQueue(h1, event)
       ELSE With([e \in {h.listeners[event][CHOOSE k \in hit : \A j \in hit : k <= j]} |->
            Throw([h1 EXCEPT !.tasks = Append(@, [kind |-> "listener", id |-> id,
                                                  fn |-> e.fn, event |-> event])])])])])

(* ------------------------------------------------------------------ volume *)
(* volume() that does not wait for the group to be loaded. *)
volumeUnloaded(h, vol, id, c, n) ==
  IF ~(vol >= 0 /\ vol <= 100)
    THEN h
    ELSE IF h.playLock
           THEN Enqueue(h, "volume", Cmd("volume", vol, 0, c, id, n))
           ELSE With([h1 \in {IF id = NoId THEN [h EXCEPT !.volume = vol] ELSE h} |->
                volumeLoop(h1, getSoundIds(h1, id), 1, vol, c)])

(* volume() that does not test the range of its value. *)
volumeUnchecked(h, vol, id, c, n) ==
  IF h.state # "loaded" \/ h.playLock
    THEN Enqueue(h, "volume", Cmd("volume", vol, 0, c, id, n))
    ELSE With([h1 \in {IF id = NoId THEN [h EXCEPT !.volume = vol] ELSE h} |->
         volumeLoop(h1, getSoundIds(h1, id), 1, vol, c)])

(* volume(vol) (n = 1) and volume(vol, id[, internal]) (n >= 2) with a     *)
(* numeric vol; c is the third argument (1 = true: do not stop fades).     *)
(* With one argument the "is this an id" test looks it up in               *)
(* _getSoundIds() = [null], so the argument is always taken as a volume.   *)
volume(h, vol, id, c, n) ==
  IF ~(vol >= 0 /\ vol <= 100)
    THEN h
    ELSE IF h.state # "loaded" \/ h.playLock
           THEN Enqueue(h, "volume", Cmd("volume", vol, 0, c, id, n))
           ELSE With([h1 \in {IF id = NoId THEN [h EXCEPT !.volume = vol] ELSE h} |->
                volumeLoop(h1, getSoundIds(h1, id), 1, vol, c)])

volumeLoop(h, ids, i, vol, c) ==
  IF h.threw \/ i > Len(ids)
    THEN h
    ELSE With([u \in {soundById(h, ids[i])} |->
         IF u = 0
              THEN volumeLoop(h, ids, i + 1, vol, c)
              ELSE With([h1 \in {[h EXCEPT !.heap[u].volume = vol]} |->
                   With([h2 \in {IF c = 1 THEN h1 ELSE self_stopFade(h1, ids[i])} |->
                   With([h3 \in {IF h2.threw THEN h2 ELSE emit(h2, "volume", h2.heap[u].id)} |->
                   volumeLoop(h3, ids, i + 1, vol, c)])])])])

(* --------------------------------------------------------------- _stopFade *)
stopFade(h, id) ==
  With([u \in {soundById(h, id)} |->
  IF u = 0 \/ h.heap[u].interval = 0
       THEN h
       ELSE With([t \in {h.heap[u].interval} |->
            With([h1 \in {[h EXCEPT !.fades = {f \in @ : f.t # t}, !.heap[u].interval = 0]} |->
            With([h2 \in {self_volume(h1, h1.heap[u].fadeTo, id, 0, 2)} |->
            With([h3 \in {[h2 EXCEPT !.heap[u].fadeTo = NoId]} |->
            IF h2.threw THEN h2 ELSE emit(h3, "fade", id)])])])])])
(* The variables a play() call closes over, for its deferred callbacks.     *)
NoClosure == [uid |-> 0, seek |-> 0, timeout |-> 0, start |-> 0, stop |-> 0,
              sprite |-> "", internal |-> FALSE]

(* seek(x) with ONE argument: the "is this an id" test looks the argument  *)
(* up in _getSoundIds() = [null], so it is a position (seconds) for the    *)
(* first sound of the pool.  This is also what pause and rate reach when   *)
(* they call self.seek(id) to read a position.                             *)
seek1(h, x) ==
  IF Len(h.sounds) = 0
    THEN h
    ELSE IF h.state # "loaded" \/ h.playLock
           THEN Enqueue(h, "seek", Cmd("seek", x, 0, 0, NoId, 1))
           ELSE self_seek(h, x * 1000, h.heap[h.sounds[1]].id)

(* ------------------------------------------------------------------- pause *)
(* arguments[1] (silent) suppresses the event.  pause reads the position   *)
(* with self.seek(id), which re-enters pause while the sound seek resolves *)
(* is still unpaused: the nesting never ends and the call stack is         *)
(* exhausted (RangeError), modelled at StackLimit nested calls of pause.   *)
pause(h, id, silent) ==
  IF h.state # "loaded" \/ h.playLock
    THEN Enqueue(h, "pause", Cmd("pause", 0, 0, 0, id, 1))
    ELSE IF h.depth >= StackLimit
           THEN [Throw(h) EXCEPT !.overflow = TRUE]
           ELSE With([r \in {pauseLoop([h EXCEPT !.depth = @ + 1], getSoundIds(h, id), 1, silent)} |-> [r EXCEPT !.depth = h.depth]])

pauseLoop(h, ids, i, silent) ==
  IF h.threw \/ i > Len(ids)
    THEN h
    ELSE With([h1 \in {clearTimer(h, ids[i])} |->
         With([u \in {soundById(h1, ids[i])} |->
         IF u = 0
              THEN pauseLoop(IF silent THEN h1 ELSE emit(h1, "pause", NoId), ids, i + 1, silent)
              ELSE IF h1.heap[u].paused
                     THEN pauseLoop(IF silent THEN h1 ELSE emit(h1, "pause", h1.heap[u].id),
                                    ids, i + 1, silent)
                     ELSE With([h2 \in {seek1(h1, ids[i])} |->
                          With([h3 \in {[h2 EXCEPT !.heap[u].seek = Junk,
                                               !.heap[u].rateSeek = 0,
                                               !.heap[u].paused = TRUE]} |->
                          With([h4 \in {self_stopFade(h3, ids[i])} |->
                          With([skip \in {h4.webAudio /\ ~h4.heap[u].src} |->
                          With([h5 \in {IF h4.webAudio
                                      THEN [h4 EXCEPT !.heap[u].src = FALSE]
                                      ELSE IF h4.heap[u].ready
                                             THEN [h4 EXCEPT !.heap[u].nodeFrom = curTime(h4, u),
                                                             !.heap[u].node = FALSE]
                                             ELSE h4} |->
                          With([h6 \in {IF silent \/ skip THEN h5 ELSE emit(h5, "pause", h5.heap[u].id)} |->
                          IF h2.threw THEN h2
                             ELSE IF h4.threw THEN h4
                             ELSE pauseLoop(h6, ids, i + 1, silent)])])])])])])])])

(* -------------------------------------------------------------------- stop *)
stop(h, id, internal) ==
  IF h.state # "loaded" \/ h.playLock
    THEN Enqueue(h, "stop", Cmd("stop", 0, 0, 0, id, 1))
    ELSE stopLoop(h, getSoundIds(h, id), 1, internal)

stopLoop(h, ids, i, internal) ==
  IF h.threw \/ i > Len(ids)
    THEN h
    ELSE With([h1 \in {clearTimer(h, ids[i])} |->
         With([u \in {soundById(h1, ids[i])} |->
         IF u = 0
              THEN stopLoop(h1, ids, i + 1, internal)
              ELSE With([h2 \in {[h1 EXCEPT !.heap[u].seek = h1.heap[u].start,
                                        !.heap[u].rateSeek = 0,
                                        !.heap[u].paused = TRUE,
                                        !.heap[u].ended = TRUE]} |->
                   With([h3 \in {self_stopFade(h2, ids[i])} |->
                   With([h4 \in {IF h3.webAudio
                               THEN [h3 EXCEPT !.heap[u].src = FALSE]
                               ELSE IF h3.heap[u].ready
                                      THEN [h3 EXCEPT !.heap[u].nodeFrom = h3.heap[u].start,
                                                      !.heap[u].node = FALSE]
                                      ELSE h3} |->
                   With([h5 \in {IF internal THEN h4 ELSE emit(h4, "stop", h4.heap[u].id)} |->
                   IF h3.threw THEN h3 ELSE stopLoop(h5, ids, i + 1, internal)])])])])])])

(* -------------------------------------------------------------------- seek *)
(* The closure seekAndEmit of seek. *)
seekAndEmit(h, id, pl) ==
  With([h1 \in {emit(h, "seek", id)} |->
  IF pl /\ ~h1.threw THEN self_play(h1, id, "", TRUE) ELSE h1])

(* seek(s, id) past the load / play-lock test; s >= 0 is a position in ms. *)
seek(h, s, id) ==
  IF h.state # "loaded" \/ h.playLock
    THEN Enqueue(h, "seek", Cmd("seek", s, 0, 0, id, 2))
    ELSE With([u \in {soundById(h, id)} |->
         IF u = 0 \/ s < 0
              THEN h
              ELSE With([pl \in {playing(h, id)} |->
                   With([h1 \in {IF pl THEN self_pause(h, id, TRUE) ELSE h} |->
                   With([h2 \in {clearTimer([h1 EXCEPT !.heap[u].seek = s,
                                                   !.heap[u].ended = FALSE], id)} |->
                   With([h3 \in {IF ~h2.webAudio /\ h2.heap[u].ready
                               THEN [h2 EXCEPT !.heap[u].nodeFrom = s, !.heap[u].nodeAt = h2.now]
                               ELSE h2} |->
                   IF h1.threw THEN h1
                      ELSE IF pl /\ ~h3.webAudio
                             THEN [h3 EXCEPT !.tasks = Append(@, [kind |-> "emitSeek", id |-> id,
                                                                  c |-> NoClosure])]
                             ELSE seekAndEmit(h3, id, pl)])])])])])

(* -------------------------------------------------------------------- play *)
(* play(id) (idArg a number), play(name) (spriteArg a name) or play()      *)
(* (neither).  The value returned is left in ret.                          *)
setParams(h, c) ==
  [h EXCEPT !.heap[c.uid] = [@ EXCEPT !.paused = FALSE, !.seek = c.seek,
                                      !.start = c.start, !.stop = c.stop,
                                      !.loop = (@ \/ h.sprite[c.sprite][3])]]

(* The closure playWebAudio of play. *)
playWebAudio(h, c) ==
  With([h1 \in {setParams([h EXCEPT !.playLock = FALSE], c)} |->
  With([h2 \in {[h1 EXCEPT !.heap[c.uid].src = TRUE, !.heap[c.uid].playStart = h.now]} |->
  With([h3 \in {armEndTimer(h2, c.uid, h2.heap[c.uid].id, c.timeout)} |->
  IF c.internal
       THEN h3
       ELSE [h3 EXCEPT !.tasks = Append(@, [kind |-> "emitPlay", id |-> NoId, c |-> c])]])])])

(* The closure playHtml5 of play; backend is what node.play() does:        *)
(* "ok" a promise that resolves, "refuse" the node stays paused and the    *)
(* promise rejects, "throw" node.play() throws.                            *)
playHtml5(h, c) ==
  With([u \in {c.uid} |->
  With([h1 \in {[h EXCEPT !.heap[u].nodeFrom = c.seek, !.heap[u].nodeAt = h.now]} |->
  IF h1.backend = "throw"
       THEN emit(h1, "playerror", h1.heap[u].id)
       ELSE
  With([h2 \in {setParams([h1 EXCEPT !.playLock = TRUE,
                                 !.heap[u].node = (h1.backend = "ok"),
                                 !.pending = Append(@, [kind |-> "promise", c |-> c,
                                                        ok |-> (h1.backend = "ok")])], c)} |->
  IF ~h2.heap[u].node
       THEN emit(h2, "playerror", h2.heap[u].id)
       ELSE IF c.sprite # "__default" \/ h2.heap[u].loop
              THEN armEndTimer(h2, u, h2.heap[u].id, c.timeout)
              ELSE armEndListener(h2, u, h2.heap[u].id)])])])

play(h, idArg, spriteArg, internal) ==
  With([isNum \in {idArg # NoId} |->
  With([scan \in {~isNum /\ spriteArg = "" /\ ~h.playLock} |->
  With([cand \in {{i \in 1..Len(h.sounds) :
                 h.heap[h.sounds[i]].paused /\ ~h.heap[h.sounds[i]].ended}} |->
  With([one \in {scan /\ Cardinality(cand) = 1} |->
  With([id \in {IF isNum THEN idArg
            ELSE IF one THEN h.heap[h.sounds[CHOOSE i \in cand : TRUE]].id
            ELSE NoId} |->
  With([sprite0 \in {IF isNum \/ one THEN ""
                 ELSE IF spriteArg = "" THEN "__default" ELSE spriteArg} |->
  IF ~isNum /\ spriteArg # "" /\ h.state = "loaded" /\ spriteArg \notin DOMAIN h.sprite
       THEN Ret(h, NoId)
       ELSE
  With([h1 \in {IF Truthy(id) THEN h ELSE inactiveSound(h)} |->
  With([u \in {IF Truthy(id) THEN soundById(h, id) ELSE h1.made} |->
  IF u = 0
       THEN Ret(h1, NoId)
       ELSE
  With([sprite \in {IF Truthy(id) /\ sprite0 = "" THEN h1.heap[u].sprite ELSE sprite0} |->
  With([sid \in {h1.heap[u].id} |->
  IF h1.state # "loaded"
       THEN Ret(Enqueue([h1 EXCEPT !.heap[u].sprite = sprite, !.heap[u].ended = FALSE],
                        "play", Cmd("play", 0, 0, 0, sid, 1)), sid)
       ELSE IF Truthy(id) /\ ~h1.heap[u].paused
              THEN Ret(IF internal THEN h1 ELSE self_loadQueue(h1, "play"), sid)
              ELSE IF sprite \notin DOMAIN h1.sprite
                     THEN Throw(h1)
                     ELSE
  With([sp \in {h1.sprite[sprite]} |->
  With([s \in {h1.heap[u]} |->
  With([seekv \in {Max(0, IF s.seek > 0 THEN s.seek ELSE sp[1])} |->
  With([duration \in {Max(0, (sp[1] + sp[2]) - seekv)} |->
  With([timeout \in {duration \div s.rate} |->
  With([c \in {[uid |-> u, seek |-> seekv, timeout |-> timeout, start |-> sp[1],
            stop |-> sp[1] + sp[2], sprite |-> sprite, internal |-> internal]} |->
  With([h2 \in {[h1 EXCEPT !.heap[u].sprite = sprite, !.heap[u].ended = FALSE]} |->
  IF seekv >= c.stop
       THEN Ret(self_ended(h2, u), NoId)
       ELSE IF h2.webAudio
              THEN IF h2.ctxRunning
                     THEN Ret(playWebAudio(h2, c), sid)
                     ELSE Ret(clearTimer([h2 EXCEPT !.playLock = TRUE,
                                                    !.pending = Append(@, [kind |-> "resume", c |-> c,
                                                                           ok |-> TRUE])], sid), sid)
              ELSE IF s.ready
                     THEN Ret(playHtml5(h2, c), sid)
                     ELSE Ret(clearTimer([h2 EXCEPT !.playLock = TRUE,
                                                    !.pending = Append(@, [kind |-> "canplay", c |-> c,
                                                                           ok |-> TRUE])], sid), sid)])])])])])])])])])])])])])])])])])

(* ------------------------------------------------------------------ _ended *)
ended(h, u) ==
  With([s \in {h.heap[u]} |->
  IF ~h.webAudio /\ s.node /\ curTime(h, u) < AssetDuration /\ curTime(h, u) < s.stop
       THEN [h EXCEPT !.timers = @ \cup {[t |-> FreshHandle(h), kind |-> "retry", uid |-> u,
                                          delay |-> RetryDelay, due |-> h.now + RetryDelay]}]
       ELSE IF s.sprite \notin DOMAIN h.sprite
              THEN Throw(h)
              ELSE
  With([loop \in {s.loop \/ h.sprite[s.sprite][3]} |->
  With([h1 \in {emit(h, "end", s.id)} |->
  IF h1.threw THEN h1
     ELSE IF ~h1.webAudio /\ loop
            THEN With([h2 \in {self_stop(h1, s.id, TRUE)} |->
                 IF h2.threw THEN h2 ELSE self_play(h2, s.id, "", FALSE)])
     ELSE IF h1.webAudio /\ loop
            THEN With([h2 \in {emit(h1, "play", s.id)} |->
                 With([x \in {h2.heap[u]} |->
                 With([h3 \in {[h2 EXCEPT !.heap[u].seek = x.start, !.heap[u].rateSeek = 0,
                                      !.heap[u].playStart = h2.now]} |->
                 IF h2.threw THEN h2
                    ELSE armEndTimer(h3, u, s.id, (x.stop - x.start) \div x.rate)])])])
     ELSE IF h1.webAudio
            THEN clearTimer([h1 EXCEPT !.heap[u].paused = TRUE, !.heap[u].ended = TRUE,
                                       !.heap[u].seek = h1.heap[u].start,
                                       !.heap[u].rateSeek = 0,
                                       !.heap[u].src = FALSE], s.id)
            ELSE self_stop(h1, s.id, TRUE)])])])
(* -------------------------------------------------------------------- rate *)
(* rate(r) (n = 1) and rate(r, id) (n = 2) with a numeric r > 0.  Both     *)
(* reads of the position, self.seek(index), are one-argument calls of seek *)
(* (see seek1) and return the Howl, so the remaining time is not a number. *)
rate(h, r, id, n) ==
  IF h.state # "loaded" \/ h.playLock
    THEN Enqueue(h, "rate", Cmd("rate", r, 0, 0, id, n))
    ELSE With([h1 \in {IF id = NoId THEN [h EXCEPT !.rate = r] ELSE h} |->
         rateLoop(h1, getSoundIds(h1, id), 1, r)])

rateLoop(h, ids, i, r) ==
  IF h.threw \/ i > Len(ids)
    THEN h
    ELSE With([index \in {ids[i]} |->
         With([u \in {soundById(h, index)} |->
         IF u = 0
              THEN rateLoop(h, ids, i + 1, r)
              ELSE
  With([pl \in {playing(h, index)} |->
  With([h1 \in {IF pl THEN seek1(h, index) ELSE h} |->
  With([h2 \in {IF pl
              THEN [h1 EXCEPT !.heap[u].rateSeek = Junk,
                              !.heap[u].playStart = IF h1.webAudio THEN h1.now ELSE @]
              ELSE h1} |->
  With([h3 \in {[h2 EXCEPT !.heap[u].nodeFrom = curTime(h2, u), !.heap[u].nodeAt = h2.now,
                       !.heap[u].rate = r]} |->
  With([h4 \in {seek1(h3, index)} |->
  With([h5 \in {IF index \in DOMAIN h4.endTimers \/ ~h4.heap[u].paused
              THEN armEndTimer(clearTimer(h4, index), u, index, Junk)
              ELSE h4} |->
  IF h1.threw THEN h1
     ELSE IF h4.threw THEN h4
     ELSE IF h4.heap[u].sprite \notin DOMAIN h4.sprite THEN Throw(h4)
     ELSE rateLoop(emit(h5, "rate", h5.heap[u].id), ids, i + 1, r)])])])])])])])])

(* ------------------------------------------------------ _startFadeInterval *)
startFadeInterval(h, u, from, to, len, isGroup) ==
  With([t \in {FreshHandle(h)} |->
  [h EXCEPT !.fades = @ \cup {[t |-> t, uid |-> u, from |-> from, to |-> to, len |-> len,
                                  vol |-> from, last |-> h.now, isGroup |-> isGroup]},
               !.heap[u].fadeTo = to,
               !.heap[u].interval = t]])

(* -------------------------------------------------------------------- fade *)
fade(h, from0, to0, len, id) ==
  IF h.state # "loaded" \/ h.playLock
    THEN Enqueue(h, "fade", Cmd("fade", from0, to0, len, id, 4))
    ELSE With([from \in {Min(Max(0, from0), 100)} |->
         With([to \in {Min(Max(0, to0), 100)} |->
         With([h1 \in {self_volume(h, from, id, 0, 2)} |->
         IF h1.threw THEN h1
            ELSE fadeLoop(h1, getSoundIds(h1, id), 1, from, to, len, id)])])])

fadeLoop(h, ids, i, from, to, len, id) ==
  IF h.threw \/ i > Len(ids)
    THEN h
    ELSE With([u \in {soundById(h, ids[i])} |->
         IF u = 0
              THEN fadeLoop(h, ids, i + 1, from, to, len, id)
              ELSE With([h1 \in {IF ~Truthy(id) THEN self_stopFade(h, ids[i]) ELSE h} |->
                   With([h2 \in {IF h1.webAudio THEN [h1 EXCEPT !.heap[u].volume = from] ELSE h1} |->
                   With([h3 \in {startFadeInterval(h2, u, from, to, len, id = NoId)} |->
                   IF h1.threw THEN h1
                      ELSE fadeLoop(h3, ids, i + 1, from, to, len, id)])])])])

(* The callback of the fade interval f. *)
fadeTick(h, f) ==
  With([u \in {f.uid} |->
  With([diff \in {f.to - f.from} |->
  With([raw \in {RoundDiv(f.vol * f.len + diff * (h.now - f.last), f.len)} |->
  With([vol \in {IF diff < 0 THEN Max(f.to, raw) ELSE Min(f.to, raw)} |->
  With([h1 \in {[h EXCEPT !.fades = (@ \ {f}) \cup {[f EXCEPT !.vol = vol, !.last = h.now]}]} |->
  With([h2 \in {IF h1.webAudio
              THEN [h1 EXCEPT !.heap[u].volume = vol]
              ELSE self_volume(h1, vol, h1.heap[u].id, 1, 3)} |->
  With([h3 \in {IF f.isGroup THEN [h2 EXCEPT !.volume = vol] ELSE h2} |->
  With([done \in {(f.to < f.from /\ vol <= f.to) \/ (f.to > f.from /\ vol >= f.to)} |->
  With([h4 \in {[h3 EXCEPT !.fades = {x \in @ : x.t # h3.heap[u].interval},
                       !.heap[u].interval = 0,
                       !.heap[u].fadeTo = NoId]} |->
  With([h5 \in {self_volume(h4, f.to, h4.heap[u].id, 0, 2)} |->
  IF h2.threw \/ ~done THEN h3
     ELSE IF h5.threw THEN h5
     ELSE emit(h5, "fade", h5.heap[u].id)])])])])])])])])])])

(* -------------------------------------------------------------------- mute *)
(* The loop runs over the ids themselves (`for (const sound of ids)`): the *)
(* assignment `sound._muted = muted` to a number fails in strict mode.     *)
mute(h, muted, id) ==
  IF h.state # "loaded" \/ h.playLock
    THEN Enqueue(h, "mute", Cmd("mute", IF muted THEN 1 ELSE 0, 0, 0, id, 2))
    ELSE With([h1 \in {IF id = NoId THEN [h EXCEPT !.muted = muted] ELSE h} |->
         With([ids \in {getSoundIds(h1, id)} |->
         IF \E k \in DOMAIN ids : Truthy(ids[k]) THEN Throw(h1) ELSE h1])])

(* -------------------------------------------------------------------- loop *)
(* loop(v) (n = 1) and loop(v, id) (n = 2); loop does not use the queue.   *)
RECURSIVE loopLoop(_, _, _, _)
loopLoop(h, ids, i, v) ==
  IF i > Len(ids)
    THEN h
    ELSE With([u \in {soundById(h, ids[i])} |->
         loopLoop(IF u = 0 THEN h ELSE [h EXCEPT !.heap[u].loop = v], ids, i + 1, v)])

loop(h, v, id, n) ==
  With([h1 \in {IF n = 1 THEN [h EXCEPT !.loop = v] ELSE h} |->
  loopLoop(h1, getSoundIds(h1, id), 1, v)])

(* ------------------------------------------------ calls with no argument *)
(* mute(), volume(), rate() and loop() with arguments.length = 0; ret is    *)
(* the value returned (1 / 0 for true / false).                             *)
(* mute() tests the state before it looks at its arguments. *)
muteRead(h) ==
  IF h.state # "loaded" \/ h.playLock
    THEN Enqueue(h, "mute", Cmd("muteRead", 0, 0, 0, NoId, 0))
    ELSE Ret(h, IF h.muted THEN 1 ELSE 0)

volumeRead(h) == Ret(h, h.volume)

(* rate() reads `self._sounds[0]._id` and looks that id up with _soundById. *)
rateRead(h) ==
  IF Len(h.sounds) = 0
    THEN Throw(h)
    ELSE With([u \in {soundById(h, h.heap[h.sounds[1]].id)} |->
         Ret(h, IF u = 0 THEN h.rate ELSE h.heap[u].rate)])

loopRead(h) == Ret(h, IF h.loop THEN 1 ELSE 0)

(* load() that enters the loading state before it has looked for a source. *)
loadEager(h, found) ==
  IF h.noAudio \/ ~found
    THEN emit([h EXCEPT !.state = "loading"], "loaderror", NoId)
    ELSE With([h1 \in {NewSound([h EXCEPT !.state = "loading"])} |->
         IF h1.webAudio THEN [h1 EXCEPT !.decoding = TRUE] ELSE h1])

(* -------------------------------------------------------------------- load *)
(* found: a source candidate the backend supports was found.               *)
load(h, found) ==
  IF h.noAudio
    THEN emit(h, "loaderror", NoId)
    ELSE IF ~found
           THEN emit(h, "loaderror", NoId)
           ELSE With([h1 \in {NewSound([h EXCEPT !.state = "loading"])} |->
                IF h1.webAudio THEN [h1 EXCEPT !.decoding = TRUE] ELSE h1])

(* ---------------------------------------------------- Sound.loadListener *)
loadListener(h) ==
  With([h1 \in {[h EXCEPT !.sprite = SpriteAfterLoad(h)]} |->
  IF h1.state # "loaded"
       THEN With([h2 \in {howlEmit([h1 EXCEPT !.state = "loaded"], "load", NoId)} |->
            IF h2.threw THEN h2 ELSE self_loadQueue(h2, NoEvent)])
       ELSE h1])
(* The action closures pushed by play, pause, stop, volume, rate, seek, fade. *)
RunCmd(h, c) ==
  CASE c.op = "play" -> self_play(h, c.id, "", FALSE)
    [] c.op = "pause" -> self_pause(h, c.id, FALSE)
    [] c.op = "stop" -> self_stop(h, c.id, FALSE)
    [] c.op = "volume" -> self_volume(h, c.a, c.id, c.c, c.n)
    [] c.op = "rate" -> self_rate(h, c.a, c.id, c.n)
    [] c.op = "seek" -> IF c.n = 1 THEN seek1(h, c.a) ELSE self_seek(h, c.a, c.id)
    [] c.op = "fade" -> self_fade(h, c.a, c.b, c.c, c.id)
    [] c.op = "mute" -> mute(h, c.a = 1, c.id)
    [] c.op = "muteRead" -> muteRead(h)

(* -------------------------------------------------------------- _loadQueue *)
loadQueue(h, event) ==
  IF h.threw \/ Len(h.queue) = 0
    THEN h
    ELSE With([task \in {h.queue[1]} |->
         With([h1 \in {IF task.event = event THEN self_loadQueue(Shift(h), NoEvent) ELSE h} |->
         IF event = NoEvent /\ ~h1.threw
              THEN RunCmd(NoteRun(h1, task.tag), task.cmd)
              ELSE h1])])

(* ------------------------------------------------------ method dispatch *)
Dispatch(h, m) ==
  CASE m[1] = "loadQueue" -> loadQueue(h, m[2])
    [] m[1] = "volume" -> volume(h, m[2], m[3], m[4], m[5])
    [] m[1] = "stopFade" -> stopFade(h, m[2])
    [] m[1] = "pause" -> pause(h, m[2], m[3])
    [] m[1] = "stop" -> stop(h, m[2], m[3])
    [] m[1] = "seek" -> seek(h, m[2], m[3])
    [] m[1] = "play" -> play(h, m[2], m[3], m[4])
    [] m[1] = "ended" -> ended(h, m[2])
    [] m[1] = "rate" -> rate(h, m[2], m[3], m[4])
    [] m[1] = "fade" -> fade(h, m[2], m[3], m[4], m[5])

(* Nothing more runs once an exception is propagating. *)
Invoke(h, m) == IF h.threw THEN h ELSE Dispatch(h, m)

(* ------------------------------------------------------------------ unload *)
RECURSIVE unloadLoop(_, _, _)
unloadLoop(h, us, i) ==
  IF h.threw \/ i > Len(us)
    THEN h
    ELSE With([u \in {us[i]} |->
         With([h1 \in {IF ~h.heap[u].paused THEN self_stop(h, h.heap[u].id, FALSE) ELSE h} |->
         With([h2 \in {[h1 EXCEPT !.heap[u].node = FALSE, !.heap[u].ready = FALSE,
                              !.heap[u].loadFn = FALSE, !.heap[u].src = FALSE,
                              !.heap[u].hasNode = FALSE]} |->
         IF h1.threw THEN h1
            ELSE unloadLoop(clearTimer(h2, h2.heap[u].id), us, i + 1)])])])

unload(h) ==
  With([h1 \in {unloadLoop(h, h.sounds, 1)} |->
  IF h1.threw THEN h1
     ELSE [h1 EXCEPT !.registered = FALSE, !.noAudio = FALSE,
                     !.state = "unloaded", !.sounds = <<>>]])

(* ------------------------------------------------------- Howl.constructor *)
(* The group registers with Howler, queues play() when autoplay is set and *)
(* calls load() only if `preload && !preload`, which never holds.          *)
NewHowl(webAudio, sprite, pool, autoplay) ==
  With([h \in {[state |-> "unloaded", sounds |-> <<>>, heap |-> <<>>, issued |-> <<>>,
            made |-> 0, queue |-> <<>>, tags |-> 0, qtrace |-> <<>>,
            playLock |-> FALSE, endTimers |-> <<>>, timers |-> {}, fades |-> {},
            pending |-> <<>>, tasks |-> <<>>,
            volume |-> DefaultVolume, rate |-> DefaultRate, loop |-> FALSE, muted |-> FALSE,
            pool |-> pool, sprite |-> sprite, webAudio |-> webAudio,
            noAudio |-> FALSE, decoding |-> FALSE, registered |-> TRUE,
            ctxRunning |-> TRUE, backend |-> "ok", now |-> 0,
            listeners |-> NoListeners, eventListeners |-> NoListeners, invoked |-> <<>>,
            log |-> <<>>, threw |-> FALSE, overflow |-> FALSE, ret |-> NoId, depth |-> 0,
            calls |-> 0, budget |-> MaxCalls, last |-> <<"new", NoId, 0, 0>>]} |->
  IF autoplay THEN Enqueue(h, "play", Cmd("play", 0, 0, 0, NoId, 0)) ELSE h])

(* ------------------------------------------------------------- the steps *)
(* Every step starts with an empty event log and no exception pending;     *)
(* invoked lists the listeners called during the step <<fn, event, id>>.   *)
(* last is the step's name and arguments <<name, id, a, b>>; for load, a   *)
(* is 1 when a supported source candidate exists.                          *)
Begin(h, name) == [h EXCEPT !.log = <<>>, !.invoked = <<>>, !.threw = FALSE, !.overflow = FALSE, !.ret = NoId, !.depth = 0,
                            !.last = <<name, NoId, 0, 0>>]
Call(h, name, id, a, b) == [Begin(h, name) EXCEPT !.calls = @ + 1,
                                                  !.last = <<name, id, a, b>>]

Ids == 1..MaxSounds
TargetIds == {1, 2}
Vols == {50, 100}
Rates == {2}
SeekPositions == {0, 2000}
FadeLen == 2 * ClockStep

CanCall == howl.calls < howl.budget /\ Len(howl.queue) < MaxQueue
CanMake == Len(howl.issued) < MaxSounds
CanStep == Len(howl.queue) <= MaxQueue

Load ==
  /\ CanCall /\ CanMake
  /\ \E found \in BOOLEAN :
       howl' = load(Call(howl, "load", NoId, IF found THEN 1 ELSE 0, 0), found)
  /\ UNCHANGED <<ref, script>>

Play ==
  /\ CanCall /\ CanMake
  /\ howl' = self_play(Call(howl, "play", NoId, 0, 0), NoId, "", FALSE)
  /\ UNCHANGED <<ref, script>>

PlaySprite ==
  /\ CanCall /\ CanMake /\ "foo" \in DOMAIN howl.sprite
  /\ howl' = self_play(Call(howl, "playSprite", NoId, 0, 0), NoId, "foo", FALSE)
  /\ UNCHANGED <<ref, script>>

PlayId ==
  /\ CanCall
  /\ \E id \in Ids : howl' = self_play(Call(howl, "playId", id, 0, 0), id, "", FALSE)
  /\ UNCHANGED <<ref, script>>

Pause ==
  /\ CanCall
  /\ \E id \in TargetIds \cup {NoId} : howl' = self_pause(Call(howl, "pause", id, 0, 0), id, FALSE)
  /\ UNCHANGED <<ref, script>>

Stop ==
  /\ CanCall
  /\ \E id \in TargetIds \cup {NoId} : howl' = self_stop(Call(howl, "stop", id, 0, 0), id, FALSE)
  /\ UNCHANGED <<ref, script>>

Volume ==
  /\ CanCall
  /\ \E v \in Vols, id \in TargetIds \cup {NoId} :
       howl' = self_volume(Call(howl, "volume", id, v, 0), v, id, 0, IF id = NoId THEN 1 ELSE 2)
  /\ UNCHANGED <<ref, script>>

Rate ==
  /\ CanCall
  /\ \E r \in Rates, id \in TargetIds \cup {NoId} :
       howl' = self_rate(Call(howl, "rate", id, r, 0), r, id, IF id = NoId THEN 1 ELSE 2)
  /\ UNCHANGED <<ref, script>>

Seek ==
  /\ CanCall
  /\ \E p \in SeekPositions, id \in Ids : howl' = self_seek(Call(howl, "seek", id, p, 0), p, id)
  /\ UNCHANGED <<ref, script>>

Fade ==
  /\ CanCall
  /\ \E a \in {0, 100}, b \in {0, 100}, id \in TargetIds \cup {NoId} :
       howl' = self_fade(Call(howl, "fade", id, a, b), a, b, FadeLen, id)
  /\ UNCHANGED <<ref, script>>

Mute ==
  /\ CanCall
  /\ \E m \in BOOLEAN, id \in TargetIds \cup {NoId} :
       howl' = mute(Call(howl, "mute", id, IF m THEN 1 ELSE 0, 0), m, id)
  /\ UNCHANGED <<ref, script>>

Loop ==
  /\ CanCall
  /\ \E v \in BOOLEAN, id \in TargetIds \cup {NoId} :
       howl' = loop(Call(howl, "loop", id, IF v THEN 1 ELSE 0, 0), v, id, IF id = NoId THEN 1 ELSE 2)
  /\ UNCHANGED <<ref, script>>

Unload ==
  /\ CanCall /\ howl.registered
  /\ howl' = unload(Call(howl, "unload", NoId, 0, 0))
  /\ UNCHANGED <<ref, script>>
(* ------------------------------------------------- backend and timer steps *)
Without(q, k) == SubSeq(q, 1, k - 1) \o SubSeq(q, k + 1, Len(q))

RECURSIVE runCanPlay(_, _, _)
runCanPlay(h, u, k) ==
  IF k > Len(h.pending)
    THEN h
    ELSE IF h.pending[k].kind = "canplay" /\ h.pending[k].c.uid = u
           THEN runCanPlay(playHtml5([h EXCEPT !.pending = Without(@, k)], h.pending[k].c), u, k)
           ELSE runCanPlay(h, u, k + 1)

(* The node of sound u fires canplaythrough: Sound.loadListener if it is    *)
(* still attached, then the listeners play() added while it waited.  A node *)
(* has a source to load once load() has chosen one.                         *)
canPlay(h, u) ==
  With([h0 \in {[h EXCEPT !.heap[u].ready = TRUE, !.heap[u].loadFn = FALSE]} |->
  With([h1 \in {IF h.heap[u].loadFn THEN loadListener(h0) ELSE h0} |->
  runCanPlay([h1 EXCEPT !.threw = FALSE], u, 1)])])

Waiting(h, u) ==
  /\ h.state # "unloaded"
  /\ ~h.heap[u].ready
  /\ h.heap[u].loadFn \/ \E k \in DOMAIN h.pending :
                           h.pending[k].kind = "canplay" /\ h.pending[k].c.uid = u

CanPlay ==
  /\ CanStep /\ ~howl.webAudio
  /\ \E u \in DOMAIN howl.heap :
       Waiting(howl, u) /\ howl' = canPlay(Begin(howl, "canplay"), u)
  /\ UNCHANGED <<ref, script>>

(* The decoded buffer of a Web Audio group is ready. *)
decodeReady(h) == loadListener([h EXCEPT !.decoding = FALSE])

DecodeReady ==
  /\ CanStep /\ howl.decoding
  /\ howl' = decodeReady(Begin(howl, "decoded"))
  /\ UNCHANGED <<ref, script>>

(* The audio context is suspended, and resumed: `resume` is emitted. *)
CtxSuspend ==
  /\ howl.webAudio /\ howl.ctxRunning /\ howl.state = "loaded"
  /\ howl' = [Begin(howl, "suspend") EXCEPT !.ctxRunning = FALSE]
  /\ UNCHANGED <<ref, script>>

ctxResume(h) ==
  With([h0 \in {[h EXCEPT !.ctxRunning = TRUE]} |->
  With([rs \in {{k \in DOMAIN h0.pending : h0.pending[k].kind = "resume"}} |->
  With([keep \in {{k \in DOMAIN h0.pending : h0.pending[k].kind # "resume"}} |->
  LET Pick(S) == [i \in 1..Cardinality(S) |->
                    h0.pending[CHOOSE k \in S : Cardinality({j \in S : j < k}) = i - 1]] IN With([h1 \in {[h0 EXCEPT !.pending = Pick(keep),
                       !.tasks = @ \o [i \in 1..Cardinality(rs) |->
                                         [kind |-> "playWebAudio", id |-> NoId,
                                          c |-> Pick(rs)[i].c]]]} |->
  emit(h1, "resume", NoId)])])])])

CtxResume ==
  /\ CanStep /\ howl.webAudio /\ ~howl.ctxRunning
  /\ howl' = ctxResume(Begin(howl, "resume"))
  /\ UNCHANGED <<ref, script>>

(* node.play()'s promise k is resolved or rejected. *)
promiseSettles(h, k) ==
  With([p \in {h.pending[k]} |->
  With([u \in {p.c.uid} |->
  With([h0 \in {[h EXCEPT !.pending = Without(@, k), !.playLock = FALSE]} |->
  IF p.ok
       THEN IF p.c.internal THEN h0
            ELSE With([h1 \in {emit(h0, "play", h0.heap[u].id)} |->
                 IF h1.threw THEN h1 ELSE self_loadQueue(h1, NoEvent)])
       ELSE With([h1 \in {emit(h0, "playerror", h0.heap[u].id)} |->
            [h1 EXCEPT !.heap[u].ended = TRUE, !.heap[u].paused = TRUE]])])])])

PromiseSettles ==
  /\ CanStep
  /\ \E k \in DOMAIN howl.pending :
       /\ howl.pending[k].kind = "promise"
       /\ howl' = promiseSettles(Begin(howl, IF howl.pending[k].ok THEN "resolved"
                                                                  ELSE "rejected"), k)
  /\ UNCHANGED <<ref, script>>

(* The oldest zero-delay timeout runs. *)
runTask(h) ==
  With([x \in {h.tasks[1]} |->
  With([h0 \in {[h EXCEPT !.tasks = Tail(@)]} |->
  CASE x.kind = "emitPlay" ->
            With([h1 \in {emit(h0, "play", h0.heap[x.c.uid].id)} |->
            IF h1.threw THEN h1 ELSE self_loadQueue(h1, NoEvent)])
       [] x.kind = "emitSeek" ->
            IF h0.playLock
              THEN [h0 EXCEPT !.tasks = Append(@, x)]
              ELSE seekAndEmit(h0, x.id, TRUE)
       [] x.kind = "playWebAudio" -> playWebAudio(h0, x.c)
       [] x.kind = "listener" -> [h0 EXCEPT !.invoked = Append(@, <<x.fn, x.event, x.id>>)]
       [] x.kind = "arrow" -> Throw(h0)])])

RunTask ==
  /\ CanStep /\ Len(howl.tasks) > 0
  /\ howl' = runTask(Begin(howl, howl.tasks[1].kind))
  /\ UNCHANGED <<ref, script>>

(* An end timer (or the 100 ms retry) expires. *)
TimerFires ==
  /\ CanStep
  /\ \E x \in howl.timers :
       /\ x.kind \in {"end", "retry"} /\ howl.now >= x.due
       /\ howl' = self_ended([Begin(howl, "timer") EXCEPT !.timers = @ \ {x},
                                                     !.last = <<"timer", x.uid, 0, 0>>],
                        x.uid)
  /\ UNCHANGED <<ref, script>>

(* The HTML5 node reaches the end of the asset: its `ended` listener runs. *)
nodeEnded(h, x) ==
  With([h1 \in {self_ended(h, x.uid)} |->
  With([id \in {h1.heap[x.uid].id} |->
  IF id \in DOMAIN h1.endTimers
       THEN [h1 EXCEPT !.timers = {y \in @ : ~(y.t = h1.endTimers[id].t /\ y.uid = x.uid)}]
       ELSE h1])])

NodeEnded ==
  /\ CanStep
  /\ \E x \in howl.timers :
       /\ x.kind = "listener" /\ howl.heap[x.uid].node
       /\ curTime(howl, x.uid) >= AssetDuration
       /\ howl' = nodeEnded(Begin(howl, "nodeEnded"), x)
  /\ UNCHANGED <<ref, script>>

(* A fade interval ticks. *)
FadeTick ==
  /\ CanStep
  /\ \E f \in howl.fades : howl' = fadeTick(Begin(howl, "fadeTick"), f)
  /\ UNCHANGED <<ref, script>>

(* Time passes. *)
Advance ==
  /\ howl.now < MaxClock * ClockStep
  /\ howl' = [Begin(howl, "advance") EXCEPT !.now = @ + ClockStep]
  /\ UNCHANGED <<ref, script>>

(* The browser starts or stops refusing playback (no user gesture). *)
Backend ==
  /\ ~howl.webAudio
  /\ \E b \in {"ok", "refuse"} :
       b # howl.backend /\ howl' = [Begin(howl, "backend") EXCEPT !.backend = b]
  /\ UNCHANGED <<ref, script>>

(* ------------------------------------------------------ the specifications *)
Start(ws, sps, pools, budget) ==
  /\ \E w \in ws, sp \in sps, pool \in pools :
       howl = [NewHowl(w, sp, pool, FALSE) EXCEPT !.budget = budget]
  /\ ref = <<>>
  /\ script = <<>>

Init == Start(BOOLEAN, {NoSprites, FooSprites}, {1, 2}, MaxCalls)

Next ==
  \/ Load \/ Play \/ PlaySprite \/ PlayId \/ Pause \/ Stop \/ Volume \/ Rate \/ Seek
  \/ Fade \/ Unload
  \/ CanPlay \/ DecodeReady \/ CtxSuspend \/ CtxResume \/ PromiseSettles \/ RunTask
  \/ TimerFires \/ NodeEnded \/ FadeTick \/ Advance \/ Backend

Spec == Init /\ [][Next]_vars

(* --------------------------------------------------- pool and lifecycle *)
(* A group with a pool of one, loaded, played and stopped. *)
PoolCalls == 6

InitPool == Start(BOOLEAN, {NoSprites}, {1}, PoolCalls)

NextPool ==
  \/ Load \/ Play \/ Stop
  \/ CanPlay \/ DecodeReady \/ PromiseSettles \/ RunTask

SpecPool == InitPool /\ [][NextPool]_vars

Rank(state) == CASE state = "unloaded" -> 0 [] state = "loading" -> 1 [] state = "loaded" -> 2

Instances(h) == {h.sounds[i] : i \in 1..Len(h.sounds)}

(* C4: the state of a group only moves forward along unloaded, loading,   *)
(* loaded, except by unload(); load() on a loaded group leaves it loaded   *)
(* and the load callback never lowers it.                                  *)
C4_StateOnlyAdvances ==
  [][howl'.last[1] # "unload" => Rank(howl'.state) >= Rank(howl.state)]_vars

(* C5: for every instance, ended implies paused, and playing(id) is true   *)
(* exactly when the instance is not paused.                                *)
C5_EndedPausedPlaying ==
  \A u \in Instances(howl) :
    /\ howl.heap[u].ended => howl.heap[u].paused
    /\ playing(howl, howl.heap[u].id) <=> ~howl.heap[u].paused

(* C6: the group retains at most max(pool, number of playing instances)   *)
(* instances.                                                              *)
C6_PoolBound ==
  Len(howl.sounds) <= Max(howl.pool,
                          Cardinality({u \in Instances(howl) : ~howl.heap[u].paused}))

(* C7: no two instances of the group carry the same id, and no newly      *)
(* constructed instance receives an id an earlier one has carried.         *)
C7_IdsUniqueNeverReused ==
  /\ \A i, j \in 1..Len(howl.sounds) :
       i # j => howl.heap[howl.sounds[i]].id # howl.heap[howl.sounds[j]].id
  /\ \A i, j \in 1..Len(howl.issued) : i # j => howl.issued[i] # howl.issued[j]
(* -------------------------------------------------------- load and unload *)
LoadCalls == 3

InitLoad == Start(BOOLEAN, {NoSprites, FooSprites}, {1}, LoadCalls)

NextLoad ==
  \/ Load \/ Unload \/ Play \/ PlaySprite
  \/ CanPlay \/ DecodeReady \/ PromiseSettles \/ RunTask

SpecLoad == InitLoad /\ [][NextLoad]_vars

(* ---------------------------------------------------------- the load queue *)
QueueCalls == 5

InitQueue == Start(BOOLEAN, {NoSprites}, {2}, QueueCalls)

NextQueue ==
  \/ Load \/ Play \/ Volume \/ Rate \/ Backend
  \/ CanPlay \/ DecodeReady \/ PromiseSettles \/ RunTask

SpecQueue == InitQueue /\ [][NextQueue]_vars

Trace(h) == {<<k, h.qtrace[k][1], h.qtrace[k][2]>> : k \in DOMAIN h.qtrace}

(* C2: every deferred command is executed exactly once: no entry leaves   *)
(* the queue before its action has run, and no action is run a second     *)
(* time.                                                                   *)
C2_DeferredRunExactlyOnce ==
  \A x \in Trace(howl) :
    /\ x[2] # "rerun"
    /\ x[2] = "shift" => \E y \in Trace(howl) : y[1] < x[1] /\ y[2] = "run" /\ y[3] = x[3]

(* C3: deferred commands start in enqueue order: when the action of entry *)
(* b starts, every entry a enqueued before it has started and has been     *)
(* removed by its trigger event.                                           *)
C3_DeferredStartInOrder ==
  \A x \in Trace(howl) :
    x[2] = "run" =>
      \A a \in 1..(x[3] - 1) :
        \E y, z \in Trace(howl) :
          /\ y[2] = "run" /\ y[3] = a
          /\ z[2] = "shift" /\ z[3] = a
          /\ y[1] < z[1] /\ z[1] < x[1]

(* --------------------------------------------------- a sprite played early *)
SpriteCalls == 3

InitSprite == Start(BOOLEAN, {FooSprites}, {2}, SpriteCalls)

NextSprite ==
  \/ Load \/ PlaySprite
  \/ CanPlay \/ DecodeReady \/ PromiseSettles \/ RunTask \/ TimerFires \/ Advance

SpecSprite == InitSprite /\ [][NextSprite]_vars

(* The instance play("foo") returned id for, before the group was loaded. *)
Promised(h, id) == {u \in Instances(h) : h.heap[u].id = id /\ h.heap[u].sprite = "foo"}

(* C8: play("foo") before the group is loaded returns the id of an        *)
(* instance that has not started; once the queued play has run after load, *)
(* the instance with that id plays at the sprite's offset with its end     *)
(* timer set to the sprite's duration; when an end timer expires, `end` is *)
(* emitted for the id of its instance.                                     *)
C8_EarlySpritePlay ==
  /\ howl.last[1] = "playSprite" /\ howl.state # "loaded" =>
       /\ Promised(howl, howl.ret) # {}
       /\ \A u \in Promised(howl, howl.ret) : ~howl.heap[u].src /\ ~howl.heap[u].node
       /\ howl.ret \notin DOMAIN howl.endTimers
  /\ \A k \in DOMAIN howl.queue :
       LET e == howl.queue[k]
       IN e.cmd.op = "play" /\ <<"run", e.tag>> \in {howl.qtrace[i] : i \in DOMAIN howl.qtrace} =>
            \A u \in Promised(howl, e.cmd.id) :
              /\ ~howl.heap[u].paused
              /\ howl.heap[u].seek = FooSprite[1]
              /\ \E x \in howl.timers :
                   x.uid = u /\ x.kind = "end" /\ x.delay = FooSprite[2]
  /\ howl.last[1] = "timer" /\ ~howl.threw /\ ~(\E x \in howl.timers : x.kind = "retry") =>
       \E k \in DOMAIN howl.log : howl.log[k] = <<"end", howl.heap[howl.last[2]].id>>

(* ------------------------------------------- deferred against immediate *)
(* howl receives volume, rate and play calls before it is loaded; ref[1]   *)
(* is a group that was loaded first and receives the same calls, each one  *)
(* followed by everything it leaves waiting.  script lists the calls.      *)
RefineCalls == 5
SettleSteps == 8

RECURSIVE Settle(_, _)
Settle(h, fuel) ==
  IF fuel = 0
    THEN h
    ELSE IF \E u \in DOMAIN h.heap : Waiting(h, u)
           THEN With([u \in {CHOOSE u \in DOMAIN h.heap :
                       Waiting(h, u) /\ \A v \in DOMAIN h.heap : Waiting(h, v) => u <= v} |->
                Settle(canPlay(Begin(h, "canplay"), u), fuel - 1)])
    ELSE IF h.decoding
           THEN Settle(decodeReady(Begin(h, "decoded")), fuel - 1)
    ELSE IF \E k \in DOMAIN h.pending : h.pending[k].kind = "promise"
           THEN With([k \in {CHOOSE k \in DOMAIN h.pending :
                       /\ h.pending[k].kind = "promise"
                       /\ \A j \in DOMAIN h.pending : h.pending[j].kind = "promise" => k <= j} |->
                Settle(promiseSettles(Begin(h, "resolved"), k), fuel - 1)])
    ELSE IF Len(h.tasks) > 0
           THEN Settle(runTask(Begin(h, h.tasks[1].kind)), fuel - 1)
    ELSE h

LoadedGroup(w) ==
  Settle(load(Call(NewHowl(w, NoSprites, DefaultPool, FALSE), "load", NoId, 1, 0), TRUE),
         SettleSteps)

(* A call that names an instance names one both groups have. *)
Known(h, id) == \E u \in Instances(h) : h.heap[u].id = id

Issue(h, c) == RunCmd(Call(h, c.op, c.id, c.a, 0), c)

Immediate(h, c) == Settle(Issue(h, c), SettleSteps)

CanDefer(c) ==
  /\ CanCall /\ CanMake /\ howl.state # "loaded"
  /\ c.id # NoId => Known(howl, c.id) /\ Known(ref[1], c.id)

DeferPlay ==
  \E c \in {Cmd("play", 0, 0, 0, NoId, 0)} :
    /\ CanDefer(c)
    /\ howl' = Issue(howl, c)
    /\ ref' = <<Immediate(ref[1], c)>>
    /\ script' = Append(script, c)

DeferVolume ==
  \E v \in Vols, id \in {1, NoId} :
    \E c \in {Cmd("volume", v, 0, 0, id, IF id = NoId THEN 1 ELSE 2)} :
      /\ CanDefer(c)
      /\ howl' = Issue(howl, c)
      /\ ref' = <<Immediate(ref[1], c)>>
      /\ script' = Append(script, c)

DeferRate ==
  \E r \in Rates, id \in {1, NoId} :
    \E c \in {Cmd("rate", r, 0, 0, id, IF id = NoId THEN 1 ELSE 2)} :
      /\ CanDefer(c)
      /\ howl' = Issue(howl, c)
      /\ ref' = <<Immediate(ref[1], c)>>
      /\ script' = Append(script, c)

LoadOnce ==
  /\ howl.state = "unloaded"
  /\ howl' = load(Call(howl, "load", NoId, 1, 0), TRUE)
  /\ UNCHANGED <<ref, script>>

InitRefine ==
  /\ \E w \in BOOLEAN :
       /\ howl = [NewHowl(w, NoSprites, DefaultPool, FALSE) EXCEPT !.budget = RefineCalls]
       /\ ref = <<LoadedGroup(w)>>
  /\ script = <<>>

NextRefine ==
  \/ DeferPlay \/ DeferVolume \/ DeferRate \/ LoadOnce
  \/ CanPlay \/ DecodeReady

SpecRefine == InitRefine /\ [][NextRefine]_vars

(* Nothing is queued and nothing is waiting to run. *)
Drained(h) ==
  /\ h.state = "loaded" /\ h.queue = <<>> /\ h.tasks = <<>> /\ h.pending = <<>>
  /\ ~h.decoding /\ \A u \in DOMAIN h.heap : ~Waiting(h, u)

Flags(h, u) == <<h.heap[u].volume, h.heap[u].rate, h.heap[u].paused, h.heap[u].ended>>

(* Group volume and rate, and how many instances carry each combination of *)
(* volume, rate, paused and ended.                                         *)
View(h) ==
  <<h.volume, h.rate,
    {<<t, Cardinality({u \in Instances(h) : Flags(h, u) = t})>> :
       t \in {Flags(h, u) : u \in Instances(h)}}>>

(* C1: once the queue of a group that received volume, rate and play calls *)
(* before it was loaded has fully drained, the group's volume and rate and *)
(* its instances' volume, rate, paused and ended flags equal those of a    *)
(* group that was loaded before it received the same calls.                *)
C1_DeferredEqualsImmediate ==
  Drained(howl) /\ Len(script) > 0 => View(howl) = View(ref[1])

(* ------------------------------------------------------------ a fade up *)
(* One fade(from, to, len, id) with from < to is called on a loaded group  *)
(* with no play commit pending, for an instance the group has; script      *)
(* keeps the call.  Nothing else touches volumes, so it is never cancelled. *)
FadeCalls == 4
FadeFrom == 0
FadeTos == {50, 100}

FadeUp ==
  \E to \in FadeTos, id \in TargetIds :
    \E c \in {Cmd("fade", FadeFrom, to, FadeLen, id, 4)} :
      /\ CanCall /\ script = <<>>
      /\ howl.state = "loaded" /\ ~howl.playLock /\ Known(howl, id)
      /\ howl' = Issue(howl, c)
      /\ script' = <<c>>
      /\ UNCHANGED ref

InitFade == Start(BOOLEAN, {NoSprites}, {DefaultPool}, FadeCalls)

NextFade ==
  \/ Load \/ Play \/ FadeUp
  \/ CanPlay \/ DecodeReady \/ PromiseSettles \/ RunTask \/ FadeTick \/ Advance

SpecFade == InitFade /\ [][NextFade]_vars

(* The instances carrying the id the fade was called with. *)
Faded(h, c) == {u \in Instances(h) : h.heap[u].id = c.id}

FadeEvents(h, id) == {k \in DOMAIN h.log : h.log[k] = <<"fade", id>>}

(* C9: fade(from, to, len, id) with from < to on a loaded group, never     *)
(* cancelled: the call starts the fade on the instance with that id at     *)
(* `from`; from then on the instance's volume never decreases and never    *)
(* exceeds `to`; `fade` is emitted for the id only by a step that leaves   *)
(* the volume at `to` exactly and the interval cleared, once in that step, *)
(* and the interval is cleared only by a step that emits it.               *)
C9_FadeUpReachesTarget ==
  [][Len(script') = 1 =>
       \A u \in Faded(howl', script'[1]) :
         /\ Len(script) = 0 =>
              /\ howl'.heap[u].volume = script'[1].a
              /\ howl'.heap[u].interval # 0
              /\ howl'.heap[u].fadeTo = script'[1].b
         /\ Len(script) = 1 => howl'.heap[u].volume >= howl.heap[u].volume
         /\ howl'.heap[u].volume <= script'[1].b
         /\ FadeEvents(howl', script'[1].id) # {} =>
              /\ Cardinality(FadeEvents(howl', script'[1].id)) = 1
              /\ howl'.heap[u].volume = script'[1].b
              /\ howl'.heap[u].interval = 0
              /\ ~\E f \in howl'.fades : f.uid = u
         /\ Len(script) = 1 /\ howl.heap[u].interval # 0 /\ howl'.heap[u].interval = 0 =>
              FadeEvents(howl', script'[1].id) # {}]_vars

(* ------------------------------------------------- a seek past the sprite *)
SeekCalls == 4

InitSeek == Start(BOOLEAN, {NoSprites}, {DefaultPool}, SeekCalls)

NextSeek ==
  \/ Load \/ Play \/ Pause \/ Seek
  \/ CanPlay \/ DecodeReady \/ PromiseSettles \/ RunTask

SpecSeek == InitSeek /\ [][NextSeek]_vars

(* The end of the sprite window of instance u, in milliseconds. *)
WindowEnd(h, u) == h.sprite[h.heap[u].sprite][1] + h.sprite[h.heap[u].sprite][2]

(* play() has started instance u at least once. *)
Played(h, u) == h.heap[u].stop > 0

(* C10: seek(s, id) on a loaded group with no play commit pending, with s  *)
(* at or beyond the end of the sprite window of the instance with that id, *)
(* which has been played and is now playing or paused: when the call       *)
(* returns `end` has been emitted for the id and the instance is paused    *)
(* and ended.                                                              *)
C10_SeekPastEndEnds ==
  [][howl'.last[1] = "seek" /\ howl.state = "loaded" /\ ~howl.playLock =>
       \A u \in Instances(howl) :
         (howl.heap[u].id = howl'.last[2] /\ Played(howl, u)
            /\ howl'.last[3] >= WindowEnd(howl, u)) =>
           /\ \E k \in DOMAIN howl'.log : howl'.log[k] = <<"end", howl'.last[2]>>
           /\ howl'.heap[u].paused
           /\ howl'.heap[u].ended]_vars

(* ------------------------------------------------------ after unload() *)
(* A group is loaded, played and unloaded, and its methods are called      *)
(* again afterwards.                                                       *)
UnloadCalls == 4

InitUnload == Start(BOOLEAN, {NoSprites}, {DefaultPool}, UnloadCalls)

NextUnload ==
  \/ Load \/ Play \/ Pause \/ Stop \/ Volume \/ Rate \/ Seek \/ Fade \/ Unload
  \/ CanPlay \/ DecodeReady \/ PromiseSettles \/ RunTask

SpecUnload == InitUnload /\ [][NextUnload]_vars

(* The step is a call of a public method. *)
PublicCall == howl'.calls = howl.calls + 1

(* C11: once unload() has been called on a group, every later call of a    *)
(* public method fails with an error: it does not return silently, adds    *)
(* no instance and appends nothing to the queue.                           *)
C11_CallsAfterUnloadFail ==
  [][~howl.registered /\ PublicCall =>
       /\ howl'.threw
       /\ howl'.sounds = howl.sounds
       /\ howl'.queue = howl.queue]_vars

(* C12: when unload() has returned the group is unloaded, is no longer     *)
(* registered, holds no instance, and no end timer and no fade interval    *)
(* of an instance it held is still armed.                                  *)
C12_UnloadLeavesNothing ==
  howl.last[1] = "unload" /\ ~howl.threw =>
    /\ howl.state = "unloaded"
    /\ ~howl.registered
    /\ howl.sounds = <<>>
    /\ howl.timers = {}
    /\ howl.fades = {}

(* ------------------------------------------------- load without a source *)
(* Groups whose load() may find no supported source candidate, on a device *)
(* with or without audio (Howler.noAudio).                                 *)
LoadErrorCalls == 3

InitLoadError ==
  /\ \E w \in BOOLEAN, na \in BOOLEAN :
       howl = [NewHowl(w, NoSprites, DefaultPool, FALSE) EXCEPT !.budget = LoadErrorCalls,
                                                                !.noAudio = na]
  /\ ref = <<>>
  /\ script = <<>>

NextLoadError ==
  \/ Load \/ Play \/ Volume
  \/ CanPlay \/ DecodeReady \/ PromiseSettles \/ RunTask

SpecLoadError == InitLoadError /\ [][NextLoadError]_vars

Emitted(h, event) == \E k \in DOMAIN h.log : h.log[k][1] = event

(* C13: load() on a group with no supported source candidate, or with no   *)
(* audio available, emits `loaderror`, leaves the state as it was          *)
(* (unloaded) and constructs no instance.                                  *)
C13_LoadErrorStaysUnloaded ==
  [][howl'.last[1] = "load" /\ (howl.noAudio \/ howl'.last[3] = 0) =>
       /\ Emitted(howl', "loaderror")
       /\ howl'.state = howl.state
       /\ howl.state = "unloaded" => howl'.state = "unloaded"
       /\ howl'.sounds = howl.sounds
       /\ howl'.issued = howl.issued]_vars

C13_Witness ==
  /\ howl.last[1] = "load" /\ howl.last[3] = 0
  /\ Emitted(howl, "loaderror")
  /\ howl.state = "unloaded"
  /\ Len(howl.queue) > 0

(* ------------------------------------------------------- construction *)
(* new Howl(howler, config) with config.preload and config.autoplay given;  *)
(* last keeps preload (1 = true).  found: a supported source exists.        *)
Construct(webAudio, sprite, pool, autoplay, preload, found) ==
  With([h \in {[NewHowl(webAudio, sprite, pool, autoplay)
                  EXCEPT !.last = <<"new", NoId, IF preload THEN 1 ELSE 0, 0>>]} |->
  IF preload /\ ~preload THEN load(h, found) ELSE h])

ConstructCalls == 3

InitConstruct ==
  /\ \E w \in BOOLEAN, autoplay \in BOOLEAN, preload \in BOOLEAN :
       howl = [Construct(w, NoSprites, DefaultPool, autoplay, preload, TRUE)
                 EXCEPT !.budget = ConstructCalls]
  /\ ref = <<>>
  /\ script = <<>>

NextConstruct ==
  \/ Load \/ Play
  \/ CanPlay \/ DecodeReady \/ PromiseSettles \/ RunTask

SpecConstruct == InitConstruct /\ [][NextConstruct]_vars

(* C14: a group constructed with preload enabled is registered and has     *)
(* left unloaded for loading when the constructor returns, without any     *)
(* call of load().                                                         *)
C14_PreloadStartsLoading ==
  howl.last[1] = "new" /\ howl.last[3] = 1 =>
    /\ howl.registered
    /\ howl.state = "loading"

(* ------------------------------------------------ the configuration objects *)
(* HowlConfig and SoundConfig: a config is a function from its field names *)
(* to values; a value is an opaque token (a string), "undefined" for a      *)
(* field that was never assigned.  An object handed to exchangeObject is    *)
(* the sequence of its entries <<key, value>>, as Object.entries lists it.  *)
HowlKeys == {"autoplay", "format", "html5", "muted", "loop", "pool", "preload", "rate",
             "sprite", "soundFileArray", "volume", "xhr", "eventListeners"}
SoundKeys == {"muted", "loop", "volume", "rate", "seek", "rateSeek", "paused", "ended",
              "sprite", "format"}

(* The field initialisers of class HowlConfig. *)
HowlConfigFields ==
  [k \in HowlKeys |->
     CASE k \in {"autoplay", "html5", "muted", "loop"} -> "false"
       [] k = "pool" -> "5"
       [] k = "preload" -> "true"
       [] k \in {"rate", "volume"} -> "1"
       [] OTHER -> "undefined"]

(* The field initialisers of class SoundConfig. *)
SoundConfigFields ==
  [k \in SoundKeys |-> IF k = "sprite" THEN "__default" ELSE "undefined"]

(* The switch with the `break` of case 'pool' missing: it falls through    *)
(* into case 'preload'.                                                     *)
assignKeyFallthrough(c, key, value) ==
  IF key = "pool" /\ key \in DOMAIN c
    THEN [c EXCEPT !["pool"] = value, !["preload"] = value]
    ELSE IF key \in DOMAIN c THEN [c EXCEPT ![key] = value] ELSE c

(* The switch of exchangeObject: a recognised key assigns its field. *)
assignKey(c, key, value) ==
  IF key \in DOMAIN c THEN [c EXCEPT ![key] = value] ELSE c

(* for (const [key, value] of Object.entries(object)) switch (key) ... *)
RECURSIVE exchangeObject(_, _)
exchangeObject(c, object) ==
  IF Len(object) = 0
    THEN c
    ELSE exchangeObject(assignKey(c, object[1][1], object[1][2]), Tail(object))

(* getObjectCopy: a fresh object with one entry per field, read by its getter. *)
getObjectCopy(c) == [k \in DOMAIN c |-> c[k]]

(* The objects exchanged: no, one or two entries, with distinct keys.       *)
ConfigCalls == 2
CfgKeys == {"autoplay", "pool", "volume", "sprite", "paused", "bogus"}
CfgValues == {"true", "0"}
CfgEntries == CfgKeys \X CfgValues
CfgObjects ==
  {<<>>} \cup {<<e>> : e \in CfgEntries}
         \cup {p \in CfgEntries \X CfgEntries : p[1][1] # p[2][1]}

(* ref holds the HowlConfig and the SoundConfig; script the last exchange:  *)
(* which config, the object passed and the copy taken before the call.      *)
Exchanged(i, object) == [config |-> i, object |-> object, before |-> getObjectCopy(ref[i])]

ExchangeHowlConfig ==
  \E object \in CfgObjects :
    /\ howl.calls < howl.budget
    /\ howl' = Call(howl, "exchangeObject", NoId, 1, 0)
    /\ ref' = [ref EXCEPT ![1] = exchangeObject(ref[1], object)]
    /\ script' = <<Exchanged(1, object)>>

ExchangeSoundConfig ==
  \E object \in CfgObjects :
    /\ howl.calls < howl.budget
    /\ howl' = Call(howl, "exchangeObject", NoId, 2, 0)
    /\ ref' = [ref EXCEPT ![2] = exchangeObject(ref[2], object)]
    /\ script' = <<Exchanged(2, object)>>

InitConfig ==
  /\ howl = [NewHowl(TRUE, NoSprites, DefaultPool, FALSE) EXCEPT !.budget = ConfigCalls]
  /\ ref = <<HowlConfigFields, SoundConfigFields>>
  /\ script = <<>>

NextConfig == ExchangeHowlConfig \/ ExchangeSoundConfig

SpecConfig == InitConfig /\ [][NextConfig]_vars

Value(object, key) == object[CHOOSE k \in DOMAIN object : object[k][1] = key][2]
Has(object, key) == \E k \in DOMAIN object : object[k][1] = key
Recognized(object, keys) == SelectSeq(object, LAMBDA e : e[1] \in keys)

(* C15: getObjectCopy() right after exchangeObject(cfg) returns cfg's      *)
(* value for every recognised key cfg has, the previous value for every    *)
(* recognised key cfg lacks, and is the same as if cfg had no unrecognised *)
(* keys.                                                                   *)
C15_ExchangeThenCopy ==
  Len(script) = 1 =>
    With([x \in {script[1]} |->
    With([copy \in {getObjectCopy(ref[x.config])} |->
      /\ \A key \in DOMAIN x.before :
           copy[key] = IF Has(x.object, key) THEN Value(x.object, key) ELSE x.before[key]
      /\ DOMAIN copy = DOMAIN x.before
      /\ copy = getObjectCopy(exchangeObject(x.before, Recognized(x.object, DOMAIN x.before)))])])

C15_Witness ==
  /\ Len(script) = 1
  /\ script[1].config = 1
  /\ Has(script[1].object, "pool") /\ Has(script[1].object, "bogus")
  /\ ref[1]["pool"] = "0" /\ ref[1]["preload"] = "true"

(* ---------------------------------------------------- pause and stop *)
(* A group is loaded and played, time passes, and instances are paused and  *)
(* stopped by id or all at once.                                            *)
HaltCalls == 4

InitHalt == Start(BOOLEAN, {NoSprites}, {DefaultPool}, HaltCalls)

NextHalt ==
  \/ Load \/ Play \/ Pause \/ Stop
  \/ CanPlay \/ DecodeReady \/ PromiseSettles \/ RunTask \/ Advance

SpecHalt == InitHalt /\ [][NextHalt]_vars

(* The instances carrying id. *)
WithId(h, id) == {u \in Instances(h) : h.heap[u].id = id}

(* The playback position of instance u, in ms. *)
Position(h, u) ==
  IF h.heap[u].paused \/ ~Played(h, u)
    THEN h.heap[u].seek
    ELSE IF h.webAudio
           THEN h.heap[u].seek + (h.now - h.heap[u].playStart) * h.heap[u].rate
           ELSE curTime(h, u)

(* No end timer and no fade interval is armed for instance u. *)
Disarmed(h, u) ==
  /\ h.heap[u].id \notin DOMAIN h.endTimers
  /\ \A x \in h.timers : x.uid # u
  /\ \A f \in h.fades : f.uid # u
  /\ h.heap[u].interval = 0

(* The step is op(id) on a loaded group with no play commit pending. *)
Applied(op) ==
  /\ howl'.last[1] = op /\ howl'.last[2] # NoId
  /\ howl.state = "loaded" /\ ~howl.playLock

(* C16: on a loaded group with no play commit pending, pause(id) leaves    *)
(* the instance paused, its ended flag as it was, its seek at the position *)
(* it had reached, with no end timer and no fade armed; stop(id) leaves it *)
(* paused and ended, its seek at the sprite start, with no end timer and   *)
(* no fade armed; `pause` / `stop` is emitted for the id.                  *)
C16_PauseStopEffect ==
  [][/\ Applied("pause") =>
          \A u \in WithId(howl, howl'.last[2]) :
            /\ howl'.heap[u].paused
            /\ howl'.heap[u].ended = howl.heap[u].ended
            /\ howl'.heap[u].seek = Position(howl, u)
            /\ Disarmed(howl', u)
            /\ <<"pause", howl'.last[2]>> \in {howl'.log[k] : k \in DOMAIN howl'.log}
     /\ Applied("stop") =>
          \A u \in WithId(howl, howl'.last[2]) :
            /\ howl'.heap[u].paused /\ howl'.heap[u].ended
            /\ howl'.heap[u].seek = howl.heap[u].start
            /\ Disarmed(howl', u)
            /\ <<"stop", howl'.last[2]>> \in {howl'.log[k] : k \in DOMAIN howl'.log}]_vars

(* ------------------------------------------------- the instances targeted *)
TargetCalls == 3

InitTarget == Start(BOOLEAN, {NoSprites}, {DefaultPool}, TargetCalls)

NextTarget ==
  \/ Load \/ Play \/ Pause \/ Stop \/ Volume \/ Rate
  \/ CanPlay \/ DecodeReady \/ PromiseSettles \/ RunTask

SpecTarget == InitTarget /\ [][NextTarget]_vars

(* The step is a call of pause, stop, volume or rate that is applied at    *)
(* once: the group is loaded, no play commit is pending, nothing is queued. *)
Targeting ==
  /\ howl'.last[1] \in {"pause", "stop", "volume", "rate"}
  /\ howl.state = "loaded" /\ ~howl.playLock /\ Len(howl.queue) = 0

(* C17: with an id, pause / stop / volume / rate leave every instance with *)
(* another id and the group's volume and rate unchanged; without an id     *)
(* they apply to every instance of the group.                              *)
C17_TargetsIdOrAll ==
  [][Targeting =>
       IF howl'.last[2] # NoId
         THEN /\ \A u \in Instances(howl) :
                   howl.heap[u].id # howl'.last[2] => howl'.heap[u] = howl.heap[u]
              /\ howl'.volume = howl.volume
              /\ howl'.rate = howl.rate
         ELSE \A u \in Instances(howl) :
                CASE howl'.last[1] = "pause" -> howl'.heap[u].paused
                  [] howl'.last[1] = "stop" -> howl'.heap[u].paused /\ howl'.heap[u].ended
                  [] howl'.last[1] = "volume" -> howl'.heap[u].volume = howl'.last[3]
                  [] howl'.last[1] = "rate" -> howl'.heap[u].rate = howl'.last[3]]_vars

(* ------------------------------------------ end of playback after a halt *)
(* Instances play the sprite foo and are paused or stopped by id; script is *)
(* the set of ids for which pause(id) or stop(id) has returned and that     *)
(* have not been played since.  The node of a managed element may stall     *)
(* (network latency): its position then lags behind the end timer.          *)
EndCalls == 3
EndClock == 3

InitEnd ==
  /\ \E w \in BOOLEAN : howl = [NewHowl(w, FooSprites, DefaultPool, FALSE) EXCEPT !.budget = EndCalls]
  /\ ref = <<>>
  /\ script = {}

PlayFoo ==
  /\ CanCall /\ CanMake
  /\ howl' = self_play(Call(howl, "playSprite", NoId, 0, 0), NoId, "foo", FALSE)
  /\ script' = script \ {howl'.ret}
  /\ UNCHANGED ref

PlayHalted ==
  /\ CanCall
  /\ \E id \in script :
       /\ howl' = self_play(Call(howl, "playId", id, 0, 0), id, "", FALSE)
       /\ script' = script \ {howl'.ret}
  /\ UNCHANGED ref

Halted(h, id) == IF h.threw THEN {} ELSE {id}

PauseId ==
  /\ CanCall /\ howl.state = "loaded" /\ ~howl.playLock
  /\ \E id \in TargetIds :
       /\ Known(howl, id)
       /\ howl' = self_pause(Call(howl, "pause", id, 0, 0), id, FALSE)
       /\ script' = script \cup Halted(howl', id)
  /\ UNCHANGED ref

StopId ==
  /\ CanCall /\ howl.state = "loaded" /\ ~howl.playLock
  /\ \E id \in TargetIds :
       /\ Known(howl, id)
       /\ howl' = self_stop(Call(howl, "stop", id, 0, 0), id, FALSE)
       /\ script' = script \cup Halted(howl', id)
  /\ UNCHANGED ref

(* The node of a playing managed element makes no progress for a while. *)
NodeStalls ==
  /\ ~howl.webAudio
  /\ \E u \in Instances(howl) :
       /\ howl.heap[u].node /\ howl.heap[u].nodeAt < howl.now
       /\ howl' = [Begin(howl, "stall") EXCEPT !.heap[u].nodeAt = howl.now]
  /\ UNCHANGED <<ref, script>>

Tick ==
  /\ howl.now < EndClock * ClockStep
  /\ howl' = [Begin(howl, "advance") EXCEPT !.now = @ + ClockStep]
  /\ UNCHANGED <<ref, script>>

NextEnd ==
  \/ Load \/ PlayFoo \/ PlayHalted \/ PauseId \/ StopId
  \/ CanPlay \/ DecodeReady \/ PromiseSettles \/ RunTask \/ TimerFires \/ NodeStalls \/ Tick

SpecEnd == InitEnd /\ [][NextEnd]_vars

(* C18: once pause(id) or stop(id) has returned on a loaded group, the     *)
(* end-of-playback procedure does not run on the instance with that id     *)
(* and no `end` is emitted for the id, until it is played again.           *)
C18_NoEndAfterHalt ==
  [][\A id \in script \cap script' :
       /\ <<"end", id>> \notin {howl'.log[k] : k \in DOMAIN howl'.log}
       /\ howl'.last[1] = "timer" => howl.heap[howl'.last[2]].id # id]_vars

(* --------------------------------------------------- playback refused *)
(* A managed-element (HTML5) group whose node.play() may resolve, leave    *)
(* the node paused and reject, or throw.                                   *)
RefuseCalls == 3

InitRefuse == Start({FALSE}, {NoSprites}, {DefaultPool}, RefuseCalls)

(* The browser starts throwing from node.play(). *)
BackendThrows ==
  /\ ~howl.webAudio /\ howl.backend # "throw"
  /\ howl' = [Begin(howl, "backend") EXCEPT !.backend = "throw"]
  /\ UNCHANGED <<ref, script>>

NextRefuse ==
  \/ Load \/ Play \/ Volume \/ Backend \/ BackendThrows
  \/ CanPlay \/ PromiseSettles

SpecRefuse == InitRefuse /\ [][NextRefuse]_vars

(* The callbacks of the given kind waiting for instance u. *)
PendingFor(h, kind, u) ==
  {k \in DOMAIN h.pending : h.pending[k].kind = kind /\ h.pending[k].c.uid = u}

(* In this step the backend finally refused to start instance u: node.play() *)
(* threw in the canplaythrough listener, or its promise was rejected.        *)
Refused(u) ==
  \/ /\ howl'.last[1] = "canplay" /\ howl.backend = "throw"
     /\ PendingFor(howl, "canplay", u) # {} /\ PendingFor(howl', "canplay", u) = {}
  \/ /\ howl'.last[1] = "rejected"
     /\ Cardinality(PendingFor(howl', "promise", u)) < Cardinality(PendingFor(howl, "promise", u))

(* C19: when the backend refuses to start an instance, `playerror` is      *)
(* emitted for its id, the instance is left paused and ended, and the play *)
(* lock is released.                                                       *)
C19_RefusalResets ==
  [][\A u \in DOMAIN howl.heap :
       Refused(u) =>
         /\ <<"playerror", howl.heap[u].id>> \in {howl'.log[k] : k \in DOMAIN howl'.log}
         /\ howl'.heap[u].paused /\ howl'.heap[u].ended
         /\ ~howl'.playLock]_vars

(* ------------------------------------------------ an unknown sprite name *)
(* A group with the sprite foo on which play("bar") is called.             *)
NameCalls == 3

InitName == Start(BOOLEAN, {FooSprites}, {DefaultPool}, NameCalls)

PlayUnknown ==
  /\ CanCall /\ CanMake
  /\ howl' = self_play(Call(howl, "playUnknown", NoId, 0, 0), NoId, "bar", FALSE)
  /\ UNCHANGED <<ref, script>>

NextName ==
  \/ Load \/ PlaySprite \/ PlayUnknown
  \/ CanPlay \/ DecodeReady \/ PromiseSettles \/ RunTask

SpecName == InitName /\ [][NextName]_vars

(* C20: play(name) with a name that is not in the sprite table fails in    *)
(* the call itself (it throws or returns no id), whatever the state of the *)
(* group: it constructs no instance, queues nothing and emits nothing, and *)
(* no deferred action fails because of it later.                           *)
C20_UnknownSpriteFailsAtOnce ==
  [][/\ howl'.last[1] = "playUnknown" =>
          /\ howl'.threw \/ howl'.ret = NoId
          /\ howl'.sounds = howl.sounds
          /\ howl'.issued = howl.issued
          /\ howl'.queue = howl.queue
          /\ howl'.log = <<>>
     /\ howl'.last[1] \in {"canplay", "decoded"} => ~howl'.threw]_vars

(* ------------------------------------------------------ listeners, events *)
(* on, once and off, and the listeners the emitted events reach.  The      *)
(* listener f is added with on, the listener g with once, at most once per *)
(* event; every listener only records that it was called.  ref holds the   *)
(* events once was called for, script the events g has been called for.    *)
ListenCalls == 4
MaxListeners == 2

ListenEvents == {"play", "volume"}

(* ---------------------------------------------------------------------- on *)
on(h, event, fn, id, once) ==
  [h EXCEPT !.listeners[event] = Append(@, [id |-> id, fn |-> fn, once |-> once])]

(* --------------------------------------------------------------------- off *)
(* off(event, id) is off(event, NoFn, id). *)
off(h, event, fn, id) ==
  IF fn # NoFn \/ Truthy(id)
    THEN [h EXCEPT !.listeners[event] = spliceMatch(@, fn, id)]
    ELSE IF event # ""
           THEN [h EXCEPT !.listeners[event] = <<>>]
           ELSE [h EXCEPT !.listeners = NoListeners]

CanListen(event) == CanCall /\ Len(howl.listeners[event]) < MaxListeners

On ==
  /\ \E event \in ListenEvents, id \in {Undefined, 1} :
       /\ CanListen(event)
       /\ howl' = on([Call(howl, "on", id, 0, 0) EXCEPT !.last = <<"on", id, event, "f">>],
                     event, "f", id, FALSE)
  /\ UNCHANGED <<ref, script>>

(* once(event, fn, id = null) is on(event, fn, id, 1). *)
Once ==
  /\ \E event \in ListenEvents \ ref, id \in {NoId, 1} :
       /\ CanListen(event)
       /\ howl' = on([Call(howl, "once", id, 0, 0) EXCEPT !.last = <<"once", id, event, "g">>],
                     event, "g", id, TRUE)
       /\ ref' = ref \cup {event}
  /\ UNCHANGED script

Off ==
  /\ CanCall
  /\ \E event \in ListenEvents, fn \in {"f", "g", NoFn}, id \in {NoId, 1} :
       howl' = off([Call(howl, "off", id, 0, 0) EXCEPT !.last = <<"off", id, event, fn>>],
                   event, fn, id)
  /\ UNCHANGED <<ref, script>>

OffAll ==
  /\ CanCall
  /\ howl' = off([Call(howl, "off", NoId, 0, 0) EXCEPT !.last = <<"off", NoId, "", NoFn>>],
                 "", NoFn, NoId)
  /\ UNCHANGED <<ref, script>>

(* The oldest zero-delay timeout runs; script notes the calls of g. *)
ListenTask ==
  /\ CanStep /\ Len(howl.tasks) > 0
  /\ howl' = runTask(Begin(howl, howl.tasks[1].kind))
  /\ script' = script \cup {howl'.invoked[k][2] : k \in {j \in DOMAIN howl'.invoked :
                                                          howl'.invoked[j][1] = "g"}}
  /\ UNCHANGED ref

(* The listeners the configuration object brought: for `load`. *)
ConfigListeners ==
  {NoListeners,
   [NoListeners EXCEPT !["load"] = <<[id |-> Undefined, fn |-> "f", once |-> FALSE]>>],
   [NoListeners EXCEPT !["load"] = <<[id |-> Undefined, fn |-> "f", once |-> FALSE],
                                     [id |-> Undefined, fn |-> "g", once |-> TRUE]>>]}

InitListen ==
  /\ \E w \in BOOLEAN, ls \in ConfigListeners :
       howl = [NewHowl(w, NoSprites, DefaultPool, FALSE) EXCEPT !.budget = ListenCalls,
                                                                !.eventListeners = ls]
  /\ ref = {}
  /\ script = {}

NextListen ==
  \/ Load \/ Play \/ Volume \/ On \/ Once \/ Off \/ OffAll
  \/ CanPlay \/ DecodeReady \/ PromiseSettles \/ ListenTask

SpecListen == InitListen /\ [][NextListen]_vars

(* C21: no listener is called inside the public call or backend callback   *)
(* that emits the event: a listener is only called by a timeout that an    *)
(* earlier step scheduled, in a step that emits nothing itself.            *)
C21_ListenersDeferred ==
  [][howl'.invoked # <<>> =>
       /\ Len(howl.tasks) > 0 /\ howl.tasks[1].kind = "listener"
       /\ howl'.last[1] = "listener"
       /\ howl'.log = <<>>
       /\ \A k \in DOMAIN howl'.invoked :
            howl'.invoked[k] = <<howl.tasks[1].fn, howl.tasks[1].event, howl.tasks[1].id>>]_vars

C21_Witness ==
  /\ howl.last[1] = "listener"
  /\ howl.invoked # <<>>
  /\ howl.state = "loaded"


OnceEntries(h, event) ==
  {k \in 1..Len(h.listeners[event]) : h.listeners[event][k].fn = "g" /\ h.listeners[event][k].once}

(* C22: a listener registered with once(event, fn) is called for at most   *)
(* one emission of the event, and once it has been called it is no longer  *)
(* in the event's listener list, whatever else is registered there.        *)
C22_OnceFiresOnce ==
  [][/\ \A k \in DOMAIN howl'.invoked :
          howl'.invoked[k][1] = "g" => howl'.invoked[k][2] \notin script
     /\ \A event \in script' : OnceEntries(howl', event) = {}]_vars

(* An id that was not passed matches an entry registered without an id. *)
SameId(a, b) == a = b \/ (a \in {Undefined, NoId} /\ b \in {Undefined, NoId})

FirstMatch(events, fn, id) ==
  {k \in 1..Len(events) : /\ events[k].fn = fn /\ SameId(events[k].id, id)
                          /\ \A j \in 1..(k - 1) : ~(events[j].fn = fn /\ SameId(events[j].id, id))}

(* C23: off(event, fn, id) removes exactly the first entry of the event's  *)
(* list whose callback and instance id are the arguments, and leaves every *)
(* other listener and their order as they were; so off(event, fn) removes  *)
(* a listener that on(event, fn) added.                                    *)
C23_OffRemovesFirstMatch ==
  [][howl'.last[1] = "off" /\ howl'.last[4] # NoFn =>
       With([event \in {howl'.last[3]} |->
       With([m \in {FirstMatch(howl.listeners[event], howl'.last[4], howl'.last[2])} |->
       howl'.listeners =
         [howl.listeners EXCEPT ![event] =
            IF m = {} THEN @ ELSE Without(@, CHOOSE k \in m : TRUE)]])])]_vars

(* ------------------------------------------------ calls before the group loads *)
EarlyCalls == 3

InitEarly == Start(BOOLEAN, {NoSprites}, {DefaultPool}, EarlyCalls)

NextEarly ==
  \/ Load \/ Play \/ Pause \/ Stop \/ Mute \/ Volume \/ Rate \/ Seek \/ Fade \/ Loop
  \/ CanPlay \/ DecodeReady \/ PromiseSettles \/ RunTask

SpecEarly == InitEarly /\ [][NextEarly]_vars

(* The values of the group and, in heap, of its instances. *)
GroupValues(h) ==
  <<h.state, h.volume, h.rate, h.loop, h.muted, h.sprite, h.playLock,
    h.endTimers, h.timers, h.fades, h.pending, h.tasks>>

Writers == {"pause", "stop", "mute", "volume", "rate", "seek", "fade", "loop"}

Queues == {"pause", "stop", "mute", "volume", "rate", "seek", "fade"}

Early == howl.state # "loaded" /\ PublicCall

Committing(h, id) ==
  {u \in WithId(h, id) : \E k \in DOMAIN h.pending : h.pending[k].c.uid = u}

(* C25: pause(id) and stop(id) are never applied to an instance whose play *)
(* commit is still pending, they are put on the queue instead; also when   *)
(* two instances have commits pending and one of them has been resolved.   *)
C25_PendingNotHalted ==
  [][/\ PublicCall /\ howl'.last[1] \in {"pause", "stop"}
     /\ Committing(howl, howl'.last[2]) # {}
     => /\ \A u \in Committing(howl, howl'.last[2]) : howl'.heap[u] = howl.heap[u]
        /\ Len(howl'.queue) = Len(howl.queue) + 1
        /\ howl'.queue[Len(howl'.queue)].cmd.op = howl'.last[1]
        /\ howl'.queue[Len(howl'.queue)].cmd.id = howl'.last[2]]_vars

(* ------------------------------------------------------ play, resume, reuse *)
ResumeCalls == 5

InitResume == Start(BOOLEAN, {NoSprites}, {DefaultPool}, ResumeCalls)

NextResume ==
  \/ Load \/ Play \/ PlayId \/ Pause \/ Stop \/ Seek
  \/ CanPlay \/ DecodeReady \/ PromiseSettles \/ RunTask

SpecResume == InitResume /\ [][NextResume]_vars

(* The instances play() may resume: paused and not ended. *)
Resumable(h) == {u \in Instances(h) : h.heap[u].paused /\ ~h.heap[u].ended}

(* Instance u is started, or its start is requested from the backend. *)
Started(h, u) ==
  \/ ~h.heap[u].paused
  \/ \E k \in DOMAIN h.pending : h.pending[k].c.uid = u

(* C26: play() on a loaded group resumes an instance exactly when one      *)
(* instance is paused and not ended, and then it resumes that instance     *)
(* (same id, its stored sprite); with none or several it takes an instance *)
(* from the pool and plays the __default sprite.                           *)
C26_PlayResumesTheOnePaused ==
  [][/\ PublicCall /\ howl'.last[1] = "play"
     /\ howl.state = "loaded" /\ ~howl.playLock
     /\ \A u \in Resumable(howl) : howl.heap[u].seek < AssetDuration
     => IF Cardinality(Resumable(howl)) = 1
          THEN \A u \in Resumable(howl) :
                 /\ howl'.ret = howl.heap[u].id
                 /\ howl'.issued = howl.issued /\ howl'.sounds = howl.sounds
                 /\ howl'.heap[u].sprite = howl.heap[u].sprite
                 /\ Started(howl', u)
          ELSE \E u \in Instances(howl') \ Resumable(howl) :
                 /\ howl'.ret = howl'.heap[u].id
                 /\ howl'.heap[u].sprite = "__default"
                 /\ Started(howl', u)
                 /\ \A v \in Resumable(howl) : howl'.heap[v] = howl.heap[v]]_vars

(* Instance u is playing: not paused, and its node or source is running. *)
Sounding(h, u) == ~h.heap[u].paused /\ (h.heap[u].node \/ h.heap[u].src)

(* C27: play(id) on a loaded group for an instance that is already playing *)
(* returns id, changes no field of any instance, arms no end timer and     *)
(* emits no `play`; with an empty queue it changes nothing at all.         *)
C27_PlayPlayingIsNoOp ==
  [][/\ PublicCall /\ howl'.last[1] = "playId"
     /\ howl.state = "loaded" /\ Len(howl.queue) = 0
     /\ \E u \in WithId(howl, howl'.last[2]) : Sounding(howl, u)
     => /\ howl'.ret = howl'.last[2]
        /\ howl'.heap = howl.heap /\ howl'.sounds = howl.sounds
        /\ howl'.timers = howl.timers /\ howl'.endTimers = howl.endTimers
        /\ ~Emitted(howl', "play")
        /\ howl'.queue = howl.queue]_vars

(* --------------------------------------------------- the pool: reuse, eviction *)
ReuseCalls == 5

InitReuse == Start(BOOLEAN, {NoSprites}, {1, 2}, ReuseCalls)

NextReuse ==
  \/ Load \/ Play \/ Stop \/ Volume
  \/ CanPlay \/ DecodeReady \/ PromiseSettles \/ RunTask

SpecReuse == InitReuse /\ [][NextReuse]_vars

(* The step is a play() that obtains its instance from the pool. *)
FromPool ==
  /\ PublicCall /\ howl'.last[1] = "play"
  /\ ~(Cardinality(Resumable(howl)) = 1 /\ ~howl.playLock)

EndedAt(h) == {i \in 1..Len(h.sounds) : h.heap[h.sounds[i]].ended}

Kept == Instances(howl) \cap Instances(howl')
KeptEnded == {u \in Kept : howl.heap[u].ended}
Evicted == Instances(howl) \ Instances(howl')

Index(h, u) == CHOOSE i \in 1..Len(h.sounds) : h.sounds[i] = u

OnlyEndedNewestFirst ==
  /\ \A u \in Evicted : howl.heap[u].ended
  /\ \A u \in Evicted, v \in KeptEnded : Index(howl, u) > Index(howl, v)

EndDue(h, u) ==
  /\ u \in Instances(h) /\ h.state = "loaded" /\ ~h.playLock
  /\ \E x \in h.timers : x.uid = u /\ x.kind = "end" /\ h.now >= x.due
  /\ \A x \in h.timers : x.uid = u => x.kind = "end"
  /\ ~h.heap[u].loop /\ ~h.sprite[h.heap[u].sprite][3]
  /\ h.webAudio \/ curTime(h, u) >= h.heap[u].stop

ReplayScript == <<"load", "play", "play", "stop", "play">>

InitReplay ==
  /\ \E w \in BOOLEAN :
       howl = [NewHowl(w, FooSprites, DefaultPool, FALSE) EXCEPT !.budget = Len(ReplayScript)]
  /\ ref = <<>>
  /\ script = ReplayScript

ScriptLoad ==
  /\ script # <<>> /\ Head(script) = "load" /\ CanCall
  /\ howl' = load(Call(howl, "load", NoId, 1, 0), TRUE)
  /\ script' = Tail(script)
  /\ UNCHANGED ref

ScriptPlay ==
  /\ script # <<>> /\ Head(script) = "play" /\ CanCall /\ howl.state = "loaded"
  /\ howl' = self_play(Call(howl, "playSprite", NoId, 0, 0), NoId, "foo", FALSE)
  /\ script' = Tail(script)
  /\ UNCHANGED ref

ScriptStop ==
  /\ script # <<>> /\ Head(script) = "stop" /\ CanCall /\ howl.state = "loaded"
  /\ \E id \in 1..2 : howl' = self_stop(Call(howl, "stop", id, 0, 0), id, FALSE)
  /\ script' = Tail(script)
  /\ UNCHANGED ref

NextReplay ==
  \/ ScriptLoad \/ ScriptPlay \/ ScriptStop
  \/ CanPlay \/ DecodeReady \/ PromiseSettles \/ TimerFires \/ Tick

SpecReplay == InitReplay /\ [][NextReplay]_vars


(* ------------------------------------------------ the end of a looping sprite *)
LoopSprites == [n \in {"foo"} |-> <<500, 1000, TRUE>>]

InitLoopEnd ==
  /\ \E w \in BOOLEAN : howl = [NewHowl(w, LoopSprites, DefaultPool, FALSE) EXCEPT !.budget = EndCalls]
  /\ ref = <<>>
  /\ script = {}

NextLoopEnd ==
  \/ Load \/ PlayFoo \/ CanPlay \/ DecodeReady \/ PromiseSettles \/ TimerFires \/ Tick

SpecLoopEnd == InitLoopEnd /\ [][NextLoopEnd]_vars

LoopDue(h, u) ==
  /\ u \in Instances(h) /\ h.state = "loaded"
  /\ \E x \in h.timers : x.uid = u /\ x.kind = "end" /\ h.now >= x.due
  /\ Cardinality({x \in h.timers : x.uid = u}) = 1
  /\ ~h.heap[u].paused /\ ~h.heap[u].ended
  /\ h.heap[u].loop \/ h.sprite[h.heap[u].sprite][3]
  /\ h.webAudio \/ curTime(h, u) >= h.heap[u].stop

(* C31: when the end timer of a looping instance fires, `end` is emitted   *)
(* and the instance stays active: it is playing (paused = ended = FALSE)   *)
(* from its sprite start, with a new end timer armed, on both backends and *)
(* also while a play commit of another instance is pending.                *)
C31_LoopTimerRestarts ==
  [][howl'.last[1] = "timer" /\ LoopDue(howl, howl'.last[2]) =>
       With([u \in {howl'.last[2]} |->
       /\ <<"end", howl.heap[u].id>> \in {howl'.log[k] : k \in DOMAIN howl'.log}
       /\ u \in Instances(howl')
       /\ ~howl'.heap[u].paused /\ ~howl'.heap[u].ended
       /\ howl'.heap[u].seek = howl.heap[u].start
       /\ \E x \in howl'.timers : x.uid = u /\ x.kind = "end" /\ x.due > howl'.now])]_vars


(* C32: after rate(r, id) on a playing instance of a loaded group the      *)
(* instance is still playing and exactly one end timer is armed for it,    *)
(* whose delay is the sprite time that remained at the call divided by r;  *)
(* on a paused or ended instance the call arms no timer.                   *)
C32_RateRearmsEndTimer ==
  [][Applied("rate") =>
       \A u \in WithId(howl, howl'.last[2]) :
         IF ~howl.heap[u].paused /\ ~howl.heap[u].ended /\ Played(howl, u)
           THEN /\ ~howl'.heap[u].paused /\ ~howl'.heap[u].ended
                /\ Cardinality({x \in howl'.timers : x.uid = u /\ x.kind = "end"}) = 1
                /\ \A x \in howl'.timers :
                     x.uid = u /\ x.kind = "end" =>
                       x.delay = (howl.heap[u].stop - Position(howl, u)) \div howl'.last[3]
           ELSE {x \in howl'.timers : x.uid = u} \subseteq howl.timers]_vars


(* ------------------------------------------------- cancelling a running fade *)
CancelCalls == 4

InitCancel == Start(BOOLEAN, {NoSprites}, {DefaultPool}, CancelCalls)

NextCancel ==
  \/ Load \/ Play \/ Pause \/ Stop \/ Volume \/ Fade
  \/ CanPlay \/ DecodeReady \/ PromiseSettles \/ FadeTick \/ Advance

SpecCancel == InitCancel /\ [][NextCancel]_vars

(* The fade intervals armed for instance u. *)
Intervals(h, u) == {f \in h.fades : f.uid = u}

(* The step is fade, volume, pause or stop with the id of instance u, on a  *)
(* loaded group with no play commit pending, while a fade runs on u.        *)
Cancels(u) ==
  /\ howl'.last[1] \in {"fade", "volume", "pause", "stop"}
  /\ PublicCall /\ howl'.last[2] # NoId
  /\ howl.state = "loaded" /\ ~howl.playLock
  /\ u \in WithId(howl, howl'.last[2])
  /\ howl.heap[u].interval # 0

(* C33: a new fade, volume(v, id), pause(id) or stop(id) on an instance    *)
(* with a running fade cancels that fade: its interval is cleared, `fade`  *)
(* is emitted exactly once for it and the instance's volume is the fade's  *)
(* target (or the value the call itself then sets); at most one fade       *)
(* interval is ever active per instance.                                   *)
C33_RunningFadeCancelled ==
  [][/\ \A u \in Instances(howl') : Cardinality(Intervals(howl', u)) <= 1
     /\ \A u \in Instances(howl) :
          Cancels(u) =>
            /\ \A f \in howl'.fades : f.t # howl.heap[u].interval
            /\ Cardinality(FadeEvents(howl', howl'.last[2])) = 1
            /\ howl'.last[1] \in {"pause", "stop"} =>
                 howl'.heap[u].volume = howl.heap[u].fadeTo
            /\ howl'.last[1] = "volume" =>
                 howl'.heap[u].volume \in {howl.heap[u].fadeTo, howl'.last[3]}
            /\ howl'.last[1] = "fade" =>
                 /\ Cardinality(Intervals(howl', u)) = 1
                 /\ howl'.heap[u].fadeTo = howl'.last[4]]_vars


(* C34: whenever the group is loaded, its sprite table contains __default, *)
(* covering the asset from 0 to its duration, whether or not sprites were  *)
(* configured.                                                             *)
C34_DefaultSpriteWhenLoaded ==
  howl.state = "loaded" =>
    /\ "__default" \in DOMAIN howl.sprite
    /\ howl.sprite["__default"][1] = 0
    /\ howl.sprite["__default"][2] = AssetDuration


(* ------------------------------------------- seeking inside a sprite window *)
WindowCalls == 5
WindowSeeks == {200, 700}

InitWindow ==
  /\ \E w \in BOOLEAN : howl = [NewHowl(w, FooSprites, DefaultPool, FALSE) EXCEPT !.budget = WindowCalls]
  /\ ref = <<>>
  /\ script = {}

SeekInto ==
  /\ CanCall
  /\ \E p \in WindowSeeks, id \in TargetIds :
       howl' = self_seek(Call(howl, "seek", id, p, 0), p, id)
  /\ UNCHANGED <<ref, script>>

NextWindow ==
  \/ Load \/ PlayFoo \/ PlayId \/ StopId \/ SeekInto
  \/ CanPlay \/ DecodeReady \/ PromiseSettles \/ RunTask

SpecWindow == InitWindow /\ [][NextWindow]_vars

(* C35: for every playing instance start <= seek <= stop, and stop - start *)
(* is the duration of the sprite it plays, also after a seek to a position *)
(* before the sprite's offset.                                             *)
C35_SeekWithinSpriteWindow ==
  \A u \in Instances(howl) :
    ~howl.heap[u].paused /\ ~howl.heap[u].ended /\ Played(howl, u) =>
      /\ howl.heap[u].sprite \in DOMAIN howl.sprite
      /\ howl.heap[u].start <= howl.heap[u].seek
      /\ howl.heap[u].seek <= howl.heap[u].stop
      /\ howl.heap[u].stop - howl.heap[u].start = howl.sprite[howl.heap[u].sprite][2]


(* ------------------------------------------------- volumes outside [0, 1] *)
RangeCalls == 4
AnyVols == {0 - 50, 50, 150}
AnyFades == {0 - 50, 150}

InitRange == Start(BOOLEAN, {NoSprites}, {DefaultPool}, RangeCalls)

VolumeAny ==
  /\ CanCall
  /\ \E v \in AnyVols, id \in {1, NoId} :
       howl' = self_volume(Call(howl, "volume", id, v, 0), v, id, 0, IF id = NoId THEN 1 ELSE 2)
  /\ UNCHANGED <<ref, script>>

FadeAny ==
  /\ CanCall
  /\ \E a \in AnyFades, b \in AnyFades :
       howl' = self_fade(Call(howl, "fade", 1, a, b), a, b, FadeLen, 1)
  /\ UNCHANGED <<ref, script>>

NextRange ==
  \/ Load \/ VolumeAny \/ FadeAny
  \/ CanPlay \/ DecodeReady \/ FadeTick \/ Advance

SpecRange == InitRange /\ [][NextRange]_vars

InRange(v) == v >= 0 /\ v <= 100

(* The values a volume call may write. *)
Audible(h) ==
  <<h.volume, [u \in DOMAIN h.heap |-> h.heap[u].volume], h.queue, h.fades, h.sounds>>

(* C36: the group volume and every instance's volume stay within [0, 1]    *)
(* (0..100 hundredths here) after every step; volume(v) with v outside the *)
(* range changes nothing; fade clamps its endpoints.                       *)
C36_VolumesStayInRange ==
  [][/\ InRange(howl'.volume)
     /\ \A u \in DOMAIN howl'.heap : InRange(howl'.heap[u].volume)
     /\ \A f \in howl'.fades : InRange(f.from) /\ InRange(f.to) /\ InRange(f.vol)
     /\ howl'.last[1] = "volume" /\ ~InRange(howl'.last[3]) => Audible(howl') = Audible(howl)]_vars

C36_Witness ==
  /\ howl.last[1] = "fadeTick"
  /\ \E f \in howl.fades :
       /\ f.from = 0 /\ f.to = 100 /\ f.vol = 50
       /\ howl.heap[f.uid].volume = 50


(* ------------------------------------------- reading the group-level values *)
ReadCalls == 3

InitRead == Start(BOOLEAN, {NoSprites}, {DefaultPool}, ReadCalls)

(* mute(), volume(), rate() or loop() is called with no argument. *)
ReadValue ==
  /\ CanCall
  /\ \E op \in {"mute()", "volume()", "rate()", "loop()"} :
       howl' = With([h \in {Call(howl, op, NoId, 0, 0)} |->
                CASE op = "mute()" -> muteRead(h)
                  [] op = "volume()" -> volumeRead(h)
                  [] op = "rate()" -> rateRead(h)
                  [] op = "loop()" -> loopRead(h)])
  /\ UNCHANGED <<ref, script>>

NextRead ==
  \/ Load \/ Rate \/ Loop \/ ReadValue
  \/ CanPlay \/ DecodeReady

SpecRead == InitRead /\ [][NextRead]_vars

(* The value of the group a read returns. *)
GroupValue(h, op) ==
  CASE op = "mute()" -> IF h.muted THEN 1 ELSE 0
    [] op = "volume()" -> h.volume
    [] op = "rate()" -> h.rate
    [] op = "loop()" -> IF h.loop THEN 1 ELSE 0

(* C37: called with no argument, mute(), volume(), rate() and loop()       *)
(* return the group's value and change nothing, in every state of the      *)
(* group: no field of the group or of an instance is written and nothing   *)
(* is appended to the queue.                                               *)
C37_ReadsChangeNothing ==
  [][howl'.last[1] \in {"mute()", "volume()", "rate()", "loop()"} =>
       /\ ~howl'.threw
       /\ howl'.ret = GroupValue(howl, howl'.last[1])
       /\ howl'.queue = howl.queue
       /\ howl'.heap = howl.heap /\ howl'.sounds = howl.sounds
       /\ GroupValues(howl') = GroupValues(howl)]_vars


(* ---------------------------------------------------- the queue drains *)
DrainCalls == 3

InitDrain == Start(BOOLEAN, {NoSprites}, {DefaultPool}, DrainCalls)

NextDrain ==
  \/ Load \/ Play \/ Stop \/ Volume
  \/ CanPlay \/ DecodeReady \/ PromiseSettles \/ RunTask

(* The backend owes the group a step: a canplaythrough, the decoded buffer, *)
(* the settlement of a play promise or a scheduled callback.               *)
Owed ==
  /\ CanStep
  /\ \/ howl.decoding
     \/ Len(howl.tasks) > 0
     \/ \E k \in DOMAIN howl.pending : howl.pending[k].kind = "promise"
     \/ ~howl.webAudio /\ \E u \in DOMAIN howl.heap : Waiting(howl, u)

Deliver == CanPlay \/ DecodeReady \/ PromiseSettles \/ RunTask

(* The event loop is fair: a queued task runs and a pending promise        *)
(* settles (WF_vars), and the backend does not owe a step forever without  *)
(* delivering one: WF_vars(Deliver) written out with Owed, the condition   *)
(* under which a Deliver step is enabled.  Calls are not forced.           *)
SpecDrain ==
  /\ InitDrain /\ [][NextDrain]_vars
  /\ WF_vars(RunTask) /\ WF_vars(PromiseSettles)
  /\ ([]<>(~Owed) \/ []<><<Deliver>>_vars)

(* The group is loaded and the backend owes it nothing. *)
Settled(h) ==
  /\ h.state = "loaded" /\ ~h.playLock /\ ~h.decoding
  /\ Len(h.pending) = 0 /\ Len(h.tasks) = 0

(* C38: once the group is loaded and every pending play commit has been    *)
(* resolved or rejected, the Action Queue eventually becomes empty.        *)
C38_QueueEventuallyEmpty == Settled(howl) ~> (Len(howl.queue) = 0)


(* ------------------------------------------------------ a fade terminates *)
FadeEndCalls == 3

InitFadeEnd == Start(BOOLEAN, {NoSprites}, {DefaultPool}, FadeEndCalls)

NextFadeEnd ==
  \/ Load \/ Fade
  \/ CanPlay \/ DecodeReady \/ FadeTick \/ Advance

(* A tick of some fade interval would change the state. *)
TickDue ==
  /\ CanStep
  /\ \E f \in howl.fades : fadeTick(Begin(howl, "fadeTick"), f) # howl

(* Timer fairness: time passes (WF_vars(Advance)) and an interval whose    *)
(* tick has an effect does tick: WF_vars(FadeTick) written out with        *)
(* TickDue, the condition under which such a step is enabled.              *)
SpecFadeEnd ==
  /\ InitFadeEnd /\ [][NextFadeEnd]_vars
  /\ WF_vars(Advance)
  /\ ([]<>(~TickDue) \/ []<><<FadeTick>>_vars)

(* C39: every fade started on a loaded group eventually stops on its own   *)
(* (its interval is cleared), for all from and to in [0, 1], from = to     *)
(* included.  Fades running at time 0 have the whole of FadeLen ahead.     *)
C39_FadeEventuallyStops ==
  (howl.state = "loaded" /\ howl.fades # {} /\ howl.now = 0) ~> (howl.fades = {})
====
